---- MODULE Spec2Model ----
\* State-machine model of the Bismuth SDK client (python/src/bismuthsdk):
\* BismuthClient (organization resolution, get_project, load_project) and
\* Project (_refresh, synchronize_git_local, synchronize_git_remote,
\* get_branch), together with the three collaborators the client drives:
\* the HTTP API of the service, the local git repositories and the git
\* endpoint the 'bismuth' remote pushes to.
\*
\* One action is one run of a coroutine between two suspension points: it
\* starts where a call begins or where an awaited request answers, and runs
\* the code up to the next awaited request (or to the return / raise).
EXTENDS Integers, Sequences, FiniteSets, TLC

\* ---------------------------------------------------------------- bounds
MaxProjects == 2      \* projects the service holds at most
MaxObjs == 1          \* client-side Project objects alive at once

\* ------------------------------------------------------------ universes
None == "None"
Coros == {1, 2}                       \* coroutines of one event loop
Slots == 1..MaxObjs                   \* client-side heap of Project objects
GitRepos == {"r1", "r2"}              \* directories holding a .git
PlainDir == "plain"                   \* a directory without .git
TmpOf(c) == IF c = 1 THEN "tmp1" ELSE "tmp2"   \* TemporaryDirectory of call c
Paths == GitRepos \cup {PlainDir} \cup {TmpOf(c) : c \in Coros}
GitUrls == {"https://example.com/src.git"}
BaseUrl == "https://api.bismuth.cloud"
BranchNames == {"main", "dev"}
ProjectNames == {"app", "lib", "web"}

HashOf(id) == IF id = 0 THEN "h0" ELSE IF id = 1 THEN "h1" ELSE IF id = 2 THEN "h2" ELSE "h3"
TokenOf(id) == IF id = 0 THEN "t0" ELSE IF id = 1 THEN "t1" ELSE IF id = 2 THEN "t2" ELSE "t3"

VARIABLES
    orgs,       \* service: the organizations the API key is a member of
    projects,   \* service: the project list of the organization, in list order
    repos,      \* local file system: per path its kind, dir name, remotes, branch
    client,     \* BismuthClient: organization, _organization_id, memoize cache
    heap,       \* client-side Project objects, by slot
    calls       \* per coroutine: the operation it runs and where it stands

vars == <<orgs, projects, repos, client, heap, calls>>
\* ------------------------------------------------------------- records
\* A project as the service holds and serialises it (class Project, the
\* fields the API returns; "features" is the alias of branches).
ServerProject(id, name, gh) ==
    [id |-> id, name |-> name, hash |-> HashOf(id), clone_token |-> TokenOf(id),
     github_app_install |-> gh, features |-> << >>, heads |-> << >>]

\* Branch.model_validate of one entry of "features": project defaults to
\* None and the private attribute _api has no value.
NewBranch(name) == [name |-> name, project |-> 0, api |-> FALSE]

NoObj ==
    [id |-> 0, name |-> None, hash |-> None, clone_token |-> None,
     github_app_install |-> FALSE, api |-> FALSE, branches |-> << >>, live |-> FALSE]

\* p = Project.model_validate(json); p._api = self
NewProject(sp) ==
    [id |-> sp.id, name |-> sp.name, hash |-> sp.hash, clone_token |-> sp.clone_token,
     github_app_install |-> sp.github_app_install, api |-> TRUE,
     branches |-> [i \in 1..Len(sp.features) |-> NewBranch(sp.features[i])],
     live |-> FALSE]

\* A git remote URL, by the components urllib.parse.urlparse gives it.
PlainUrl(u) == [base |-> u, username |-> None, password |-> None, path |-> None]

AbsentDir == [kind |-> "absent", name |-> None, remotes |-> << >>, branch |-> None, head |-> None]

IdleCall ==
    [op |-> "idle", pc |-> "idle", repo |-> None, create |-> FALSE,
     key |-> [kind |-> None, name |-> None, id |-> 0],
     p |-> 0, built |-> FALSE, linked |-> FALSE, token |-> None, url |-> PlainUrl(None),
     remotes0 |-> << >>, nprojects0 |-> 0, org0 |-> 0,
     trace |-> << >>, status |-> "idle", push |-> None, branch |-> NewBranch(None), snap |-> << >>]

NewCall(op) ==
    [IdleCall EXCEPT !.op = op, !.pc = "run", !.status = "running",
                     !.nprojects0 = Len(projects), !.org0 = client.organization]

\* ------------------------------------------------------- pure helpers
\* index of the first element of seq that satisfies Test, 0 when there is
\* none: the linear scans "for x in ...: if ...: return x"
FirstIndex(seq, Test(_)) ==
    LET hits == {i \in 1..Len(seq) : Test(seq[i])}
    IN  IF hits = {} THEN 0 ELSE CHOOSE i \in hits : \A j \in hits : i <= j

Count(seq, Test(_)) == Cardinality({i \in 1..Len(seq) : Test(seq[i])})

\* g.remote("bismuth"): the remote of that name, None when there is none
RemoteIndex(repo, name) ==
    LET IsIt(r) == r.name = name IN FirstIndex(repo.remotes, IsIt)

\* variant: the credential taken from the part of the netloc before the
\* first colon, which is the user name
UrlPasswordBeforeColon(url) == url.username

\* urllib.parse.urlparse(bismuth_remote.url).password
UrlPassword(url) == url.password

\* the url synchronize_git_local builds: base_url + /git/{hash} with the
\* netloc replaced by git:{clone_token}@netloc
PushUrl(obj) ==
    [base |-> BaseUrl, username |-> "git", password |-> obj.clone_token,
     path |-> obj.hash]

ProjectIndexById(id) ==
    LET IsIt(sp) == sp.id = id IN FirstIndex(projects, IsIt)

\* ---------------------------------------------------------------- Init
\* A client right after BismuthClient(api_key[, organization_id]), a
\* service with one or two organizations and an empty project list or one
\* project linked to GitHub, and local directories: r1 a fresh repository,
\* r2 a repository with an origin remote and possibly a 'bismuth' remote
\* left over from a project the service no longer lists.
StaleUrl == [base |-> BaseUrl, username |-> "git", password |-> TokenOf(0), path |-> HashOf(0)]
OriginRemote == [name |-> "origin", url |-> PlainUrl("https://example.com/r2.git")]

Init ==
    /\ projects \in {<< >>, <<[ServerProject(1, "web", TRUE) EXCEPT !.features = <<"main">>, !.heads = <<"c0">>]>>}
    /\ \E n2 \in {"app", "lib"}, rem2 \in {<<OriginRemote>>,
                 <<OriginRemote, [name |-> "bismuth", url |-> StaleUrl]>>} :
          repos = [d \in Paths |->
                     IF d = "r1" THEN [kind |-> "git", name |-> "app", remotes |-> << >>, branch |-> "main", head |-> "c1"]
                     ELSE IF d = "r2" THEN [kind |-> "git", name |-> n2, remotes |-> rem2, branch |-> "dev", head |-> "c2"]
                     ELSE IF d = PlainDir THEN [kind |-> "dir", name |-> "plain", remotes |-> << >>, branch |-> None, head |-> None]
                     ELSE AbsentDir]
    /\ \E cfg \in {<<(<<2>>), 0>>, <<(<<1>>), 1>>, <<(<<1, 2>>), 0>>} :
          /\ orgs = cfg[1]
          /\ client = [organization |-> 0, organization_id |-> cfg[2],
                       memo_set |-> FALSE, memo |-> << >>]
    /\ heap = [s \in Slots |-> NoObj]
    /\ calls = [c \in Coros |-> IdleCall]

\* ------------------------------------------- leaving and suspending
\* the with-block of synchronize_git_remote removes the temporary directory
Cleanup(c, k, rp) ==
    IF k.op = "synchronize_git_remote" THEN [rp EXCEPT ![TmpOf(c)] = AbsentDir] ELSE rp

\* a Project object built by a call that raises is never handed out
Discard(k, hp) == IF k.built THEN [hp EXCEPT ![k.p] = NoObj] ELSE hp

Put(c, k, hp, rp) ==
    /\ calls' = [calls EXCEPT ![c] = k]
    /\ heap' = hp
    /\ repos' = rp

\* variant: the temporary directory is removed only where the body of
\* synchronize_git_remote ends normally
RaiseNoCleanup(c, k, err, hp, rp) ==
    Put(c, [k EXCEPT !.pc = "done", !.status = err], Discard(k, hp), rp)

\* the call raises err to its caller
Raise(c, k, err, hp, rp) ==
    Put(c, [k EXCEPT !.pc = "done", !.status = err], Discard(k, hp), Cleanup(c, k, rp))

\* the call returns (the Project in slot k.p, for get_project/load_project)
Return(c, k, hp, rp) ==
    Put(c, [k EXCEPT !.pc = "done", !.status = "ok"],
        IF k.built THEN [hp EXCEPT ![k.p].live = TRUE] ELSE hp,
        Cleanup(c, k, rp))

\* the call issues a request (event ev) and suspends until it answers
Issue(c, k, ev, pc, hp, rp) ==
    Put(c, [k EXCEPT !.pc = pc, !.trace = Append(@, ev)], hp, rp)

\* ------------------------------------------------ get_organization
\* variant: load_project creates whenever create is set, without looking
\* for an existing 'bismuth' remote first
AfterOrgNoRemoteLookup(c, k) ==
    IF k.op = "get_project"
    THEN IF k.key.kind = "str"
         THEN Issue(c, k, "GET projects/list", "await_list", heap, repos)
         ELSE Issue(c, k, "GET projects/id", "await_get", heap, repos)
    ELSE IF ~k.create
         THEN Raise(c, k, "NotFound", heap, repos)
         ELSE Issue(c, k, "POST projects", "await_create", heap, repos)

\* variant: load_project without the "if not create" check, a missing
\* remote always leads to the creation request
AfterOrgIgnoresCreate(c, k) ==
    IF k.op = "get_project"
    THEN IF k.key.kind = "str"
         THEN Issue(c, k, "GET projects/list", "await_list", heap, repos)
         ELSE Issue(c, k, "GET projects/id", "await_get", heap, repos)
    ELSE LET i == RemoteIndex(repos[k.repo], "bismuth") IN
         IF i = 0
         THEN Issue(c, k, "POST projects", "await_create", heap, repos)
         ELSE Issue(c, [k EXCEPT !.token = UrlPassword(repos[k.repo].remotes[i].url)],
                    "GET projects/list", "await_list", heap, repos)

\* after "organization = await self.get_organization()"
AfterOrg(c, k) ==
    IF k.op = "get_project"
    THEN IF k.key.kind = "str"
         THEN Issue(c, k, "GET projects/list", "await_list", heap, repos)
         ELSE Issue(c, k, "GET projects/id", "await_get", heap, repos)
    ELSE \* load_project: g.remote("bismuth")
         LET i == RemoteIndex(repos[k.repo], "bismuth") IN
         IF i = 0
         THEN IF ~k.create
              THEN Raise(c, k, "NotFound", heap, repos)
              ELSE Issue(c, k, "POST projects", "await_create", heap, repos)
         ELSE Issue(c, [k EXCEPT !.token = UrlPassword(repos[k.repo].remotes[i].url)],
                    "GET projects/list", "await_list", heap, repos)

\* variant: with several organizations the first one is taken
OrgListedTakesFirst(c, k, organizations, cl) ==
    /\ client' = [cl EXCEPT !.organization_id = organizations[1]]
    /\ Issue(c, k, "GET organizations/id", "await_org", heap, repos)

\* organizations = await self.list_organizations_async() has answered
OrgListed(c, k, organizations, cl) ==
    IF Len(organizations) > 1
    THEN client' = cl /\ Raise(c, k, "Ambiguous", heap, repos)
    ELSE /\ client' = [cl EXCEPT !.organization_id = organizations[1]]
         /\ Issue(c, k, "GET organizations/id", "await_org", heap, repos)

\* get_organization from its first line to its first suspension
OrgStart(c, k) ==
    IF client.organization # 0
    THEN client' = client /\ AfterOrg(c, k)
    ELSE IF client.organization_id = 0
    THEN IF client.memo_set
         THEN OrgListed(c, k, client.memo, client)
         ELSE client' = client /\ Issue(c, k, "GET organizations", "await_orgs", heap, repos)
    ELSE client' = client /\ Issue(c, k, "GET organizations/id", "await_org", heap, repos)

\* GET /organizations answers
RespOrgs(c) ==
    /\ calls[c].pc = "await_orgs"
    /\ \E ok \in BOOLEAN :
          IF ok
          THEN OrgListed(c, calls[c], orgs, [client EXCEPT !.memo_set = TRUE, !.memo = orgs])
          ELSE client' = client /\ Raise(c, calls[c], "Transport", heap, repos)
    /\ UNCHANGED <<orgs, projects>>

\* GET /organizations/{id} answers
RespOrg(c) ==
    /\ calls[c].pc = "await_org"
    /\ \E ok \in BOOLEAN :
          IF ok
          THEN /\ client' = [client EXCEPT !.organization = client.organization_id]
               /\ AfterOrg(c, calls[c])
          ELSE client' = client /\ Raise(c, calls[c], "Transport", heap, repos)
    /\ UNCHANGED <<orgs, projects>>

\* ------------------------------------------------------------ Project
\* slots no other running call is working on
FreeSlots(c) ==
    {s \in DOMAIN heap : \A d \in Coros \ {c} :
        ~(calls[d].pc \notin {"idle", "done"} /\ calls[d].p = s)}

\* variant: the fetched branches are merged into the held list, a branch
\* the answer no longer has stays
RefreshedMerge(obj, s, sp) ==
    LET fresh == [i \in 1..Len(sp.features) |->
                    [NewBranch(sp.features[i]) EXCEPT !.api = obj.api, !.project = s]]
        Gone(b) == \A i \in 1..Len(sp.features) : sp.features[i] # b.name
    IN  [obj EXCEPT !.branches = SelectSeq(obj.branches, Gone) \o fresh]

\* variant: every field of the answer is taken over, not only the branches
RefreshedAllFields(obj, s, sp) ==
    [obj EXCEPT !.name = sp.name, !.hash = sp.hash, !.clone_token = sp.clone_token,
                !.github_app_install = sp.github_app_install,
                !.branches =
        [i \in 1..Len(sp.features) |->
            [NewBranch(sp.features[i]) EXCEPT !.api = obj.api, !.project = s]]]

\* variant: the list is replaced first and the back-references are attached
\* only after a further suspension point (the state in between)
RefreshedListFirst(obj, s, sp) ==
    [obj EXCEPT !.branches = [i \in 1..Len(sp.features) |-> NewBranch(sp.features[i])]]

\* self.branches = new.branches; for b in self.branches: b._api = self._api;
\* b.project = self   (self is the object in slot s)
Refreshed(obj, s, sp) ==
    [obj EXCEPT !.branches =
        [i \in 1..Len(sp.features) |->
            [NewBranch(sp.features[i]) EXCEPT !.api = obj.api, !.project = s]]]

\* Project._refresh up to its request
RefreshStart(c, k, hp, rp) == Issue(c, k, "refresh", "await_refresh", hp, rp)

\* GET {project prefix} of _refresh answers; every caller of _refresh
\* returns right after it
RespRefresh(c) ==
    LET k == calls[c]
        i == ProjectIndexById(heap[k.p].id)
        kd == [k EXCEPT !.trace = Append(@, "refresh_end")]
    IN  /\ k.pc = "await_refresh"
        /\ \E ok \in {b \in BOOLEAN : b => i # 0} :
              IF ok
              THEN Return(c, kd, [heap EXCEPT ![k.p] = Refreshed(@, k.p, projects[i])], repos)
              ELSE Raise(c, kd, "Transport", heap, repos)
        /\ UNCHANGED <<orgs, projects, client>>

\* variant: the remote is always added, an existing one is not looked for
AttachRemoteAlwaysAdd(repo, url) ==
    [repo EXCEPT !.remotes = Append(@, [name |-> "bismuth", url |-> url])]

\* variant: only the set_url branch, a missing remote is not created
AttachRemoteSetUrlOnly(repo, url) ==
    LET i == RemoteIndex(repo, "bismuth") IN
    IF i = 0 THEN repo ELSE [repo EXCEPT !.remotes[i].url = url]

\* try: g.create_remote("bismuth", url)
\* except GitCommandError: g.remotes.bismuth.set_url(url)
AttachRemote(repo, url) ==
    LET i == RemoteIndex(repo, "bismuth") IN
    IF i = 0
    THEN [repo EXCEPT !.remotes = Append(@, [name |-> "bismuth", url |-> url])]
    ELSE [repo EXCEPT !.remotes[i].url = url]

\* variant: without the check of github_app_install
SyncLocalStartNoLinkCheck(c, k, hp, rp) ==
    IF rp[k.repo].kind # "git"
    THEN Raise(c, k, "InvalidRepository", hp, rp)
    ELSE LET url == PushUrl(hp[k.p])
             had == RemoteIndex(rp[k.repo], "bismuth") # 0
             k2 == [k EXCEPT !.url = url,
                             !.trace = Append(@, IF had THEN "set_url" ELSE "create_remote")]
         IN  Issue(c, k2, "push", "await_push", hp,
                   [rp EXCEPT ![k.repo] = AttachRemote(@, url)])

\* variant: the push is started but not awaited, the refresh request goes
\* out while it runs
SyncLocalStartPushNotAwaited(c, k, hp, rp) ==
    LET obj == hp[k.p] IN
    IF obj.github_app_install
    THEN Raise(c, k, "Unsupported", hp, rp)
    ELSE IF rp[k.repo].kind # "git"
    THEN Raise(c, k, "InvalidRepository", hp, rp)
    ELSE LET url == PushUrl(obj)
             had == RemoteIndex(rp[k.repo], "bismuth") # 0
             k2 == [k EXCEPT !.url = url,
                             !.trace = Append(@, IF had THEN "set_url" ELSE "create_remote") \o <<"push">>]
         IN  RefreshStart(c, k2, hp, [rp EXCEPT ![k.repo] = AttachRemote(@, url)])

\* variant: without the check for .git
SyncLocalStartNoGitCheck(c, k, hp, rp) ==
    LET obj == hp[k.p] IN
    IF obj.github_app_install
    THEN Raise(c, k, "Unsupported", hp, rp)
    ELSE LET url == PushUrl(obj)
             had == RemoteIndex(rp[k.repo], "bismuth") # 0
             k2 == [k EXCEPT !.url = url,
                             !.trace = Append(@, IF had THEN "set_url" ELSE "create_remote")]
         IN  Issue(c, k2, "push", "await_push", hp,
                   [rp EXCEPT ![k.repo] = AttachRemote(@, url)])

\* synchronize_git_local_async from its first line to the awaited push
SyncLocalStart(c, k, hp, rp) ==
    LET obj == hp[k.p] IN
    IF obj.github_app_install
    THEN Raise(c, k, "Unsupported", hp, rp)
    ELSE IF rp[k.repo].kind # "git"
    THEN Raise(c, k, "InvalidRepository", hp, rp)
    ELSE LET url == PushUrl(obj)
             had == RemoteIndex(rp[k.repo], "bismuth") # 0
             k2 == [k EXCEPT !.url = url,
                             !.trace = Append(@, IF had THEN "set_url" ELSE "create_remote")]
         IN  Issue(c, k2, "push", "await_push", hp,
                   [rp EXCEPT ![k.repo] = AttachRemote(@, url)])

\* what the git endpoint does with a force push of one branch that it
\* accepts: the branch now points at the pushed commit, whatever it pointed
\* at before
Pushed(sp, branch, head) ==
    LET IsIt(b) == b = branch
        i == FirstIndex(sp.features, IsIt)
    IN  IF i # 0
        THEN [sp EXCEPT !.heads[i] = head]
        ELSE [sp EXCEPT !.features = Append(@, branch), !.heads = Append(@, head)]

\* The push run by asyncio.to_thread ends. Remote.push returns a list of
\* per-ref results: "ok" when the endpoint took the ref, "rejected" when the
\* endpoint refused the ref (the list carries an error flag, nothing is
\* raised, and the code does not look at the list); it raises
\* GitCommandError ("raised") when the command produced no result at all.
PushOutcomes == {"ok", "rejected", "raised"}

RespPush(c) ==
    LET k == calls[c]
        IsIt(sp) == sp.hash = k.url.path /\ sp.clone_token = k.url.password
        i == FirstIndex(projects, IsIt)
    IN  /\ k.pc = "await_push"
        /\ \E out \in {o \in PushOutcomes : o = "ok" => i # 0} :
              LET kd == [k EXCEPT !.trace = Append(@, "push_end"), !.push = out] IN
              /\ projects' = IF out = "ok"
                             THEN [projects EXCEPT ![i] = Pushed(@, repos[k.repo].branch, repos[k.repo].head)]
                             ELSE projects
              /\ IF out = "raised"
                 THEN Raise(c, kd, "GitCommandError", heap, repos)
                 ELSE RefreshStart(c, kd, heap, repos)
        /\ UNCHANGED <<orgs, client>>

\* ------------------------------------------------------- BismuthClient
MayBegin(c) == calls[c].pc \in {"idle", "done"}

StrKey(n) == [kind |-> "str", name |-> n, id |-> 0]
IntKey(i) == [kind |-> "int", name |-> None, id |-> i]
Keys == {StrKey(n) : n \in ProjectNames} \cup {IntKey(i) : i \in 1..MaxProjects}

\* get_project_async(name_or_id) is called
BeginGetProject(c, key) ==
    /\ MayBegin(c)
    /\ OrgStart(c, [NewCall("get_project") EXCEPT !.key = key])
    /\ UNCHANGED <<orgs, projects>>

\* load_project_async(repo, create) is called
BeginLoadProject(c, repo, create) ==
    LET k == [NewCall("load_project") EXCEPT !.repo = repo, !.create = create,
                                             !.remotes0 = repos[repo].remotes] IN
    /\ MayBegin(c)
    /\ repos[repo].kind # "absent"
    /\ IF repos[repo].kind # "git"
       THEN client' = client /\ Raise(c, k, "InvalidRepository", heap, repos)
       ELSE OrgStart(c, k)
    /\ UNCHANGED <<orgs, projects>>

\* p = Project.model_validate(r.json()); p._api = self, for the answer of
\* GET .../projects/{id}
ById(id) == NewProject(projects[ProjectIndexById(id)])

\* GET .../projects/{id} of get_project answers
RespGet(c) ==
    LET k == calls[c]
        i == ProjectIndexById(k.key.id)
    IN  /\ k.pc = "await_get"
        /\ \E ok \in {b \in BOOLEAN : b => i # 0} :
              IF ok
              THEN \E s \in FreeSlots(c) :
                      Return(c, [k EXCEPT !.p = s, !.built = TRUE,
                                          !.linked = projects[i].github_app_install],
                             [heap EXCEPT ![s] = ById(k.key.id)], repos)
              ELSE Raise(c, k, "Transport", heap, repos)
        /\ UNCHANGED <<orgs, projects, client>>

\* variant: the scan keeps going and the last match wins
MatchIndexLast(k) ==
    LET Match(sp) == IF k.op = "get_project" THEN sp.name = k.key.name
                                              ELSE sp.clone_token = k.token
        hits == {i \in 1..Len(projects) : Match(projects[i])}
    IN  IF hits = {} THEN 0 ELSE CHOOSE i \in hits : \A j \in hits : j <= i

\* variant: the scan takes the first project of the list without comparing
MatchIndexFirstListed(k) == IF Len(projects) > 0 THEN 1 ELSE 0

\* for p in map(Project.model_validate, r.json()["projects"]):
\*     if p.name == name_or_id / if p.clone_token == clone_token: ... return p
MatchIndex(k) ==
    LET Match(sp) == IF k.op = "get_project" THEN sp.name = k.key.name
                                              ELSE sp.clone_token = k.token
    IN  FirstIndex(projects, Match)

\* GET .../projects/list answers: get_project scans it for the name,
\* load_project for the clone token of the 'bismuth' remote
RespList(c) ==
    LET k == calls[c]
        i == MatchIndex(k)
    IN  /\ k.pc = "await_list"
        /\ \E ok \in BOOLEAN :
              IF ~ok THEN Raise(c, k, "Transport", heap, repos)
              ELSE IF i = 0
              THEN Raise(c, k, IF k.op = "get_project" THEN "NotFound" ELSE "Inconsistent",
                         heap, repos)
              ELSE \E s \in FreeSlots(c) :
                      RefreshStart(c, [k EXCEPT !.p = s, !.built = TRUE,
                                                !.linked = projects[i].github_app_install],
                                   [heap EXCEPT ![s] = NewProject(projects[i])], repos)
        /\ UNCHANGED <<orgs, projects, client>>

\* POST .../projects of load_project answers; the service names the new
\* project as asked and may hand out a project already linked to GitHub
RespCreate(c) ==
    LET k == calls[c] IN
    /\ k.pc = "await_create"
    /\ \E ok \in {b \in BOOLEAN : b => Len(projects) < MaxProjects} :
          IF ok
          THEN \E gh \in BOOLEAN, s \in FreeSlots(c) :
                  LET sp == ServerProject(Len(projects) + 1, repos[k.repo].name, gh) IN
                  /\ projects' = Append(projects, sp)
                  /\ SyncLocalStart(c, [k EXCEPT !.p = s, !.built = TRUE, !.linked = gh],
                                    [heap EXCEPT ![s] = NewProject(sp)], repos)
          ELSE projects' = projects /\ Raise(c, k, "Transport", heap, repos)
    /\ UNCHANGED <<orgs, client>>

\* ------------------------------------------------ Project operations
\* project.synchronize_git_local_async(repo) is called on a Project the
\* caller holds
BeginSyncLocal(c, s, repo) ==
    /\ MayBegin(c)
    /\ heap[s].live
    /\ repos[repo].kind # "absent"
    /\ SyncLocalStart(c, [NewCall("synchronize_git_local") EXCEPT
                             !.p = s, !.repo = repo, !.snap = heap[s].branches,
                             !.linked = heap[s].github_app_install,
                             !.remotes0 = repos[repo].remotes],
                      heap, repos)
    /\ UNCHANGED <<orgs, projects, client>>

\* variant: without the check of github_app_install before the clone
BeginSyncRemoteNoLinkCheck(c, s, git_url) ==
    LET k == [NewCall("synchronize_git_remote") EXCEPT
                 !.p = s, !.repo = TmpOf(c), !.snap = heap[s].branches,
                 !.linked = heap[s].github_app_install]
    IN  /\ MayBegin(c)
        /\ heap[s].live
        /\ Issue(c, [k EXCEPT !.trace = Append(@, "mkdtemp")], "clone", "await_clone", heap,
                 [repos EXCEPT ![TmpOf(c)] =
                     [kind |-> "dir", name |-> "tmp", remotes |-> << >>, branch |-> None, head |-> None]])
        /\ UNCHANGED <<orgs, projects, client>>

\* project.synchronize_git_remote_async(git_url) is called: the check of
\* the GitHub link, TemporaryDirectory(), then the awaited clone
BeginSyncRemote(c, s, git_url) ==
    LET k == [NewCall("synchronize_git_remote") EXCEPT
                 !.p = s, !.repo = TmpOf(c), !.snap = heap[s].branches,
                 !.linked = heap[s].github_app_install]
    IN  /\ MayBegin(c)
        /\ heap[s].live
        /\ IF heap[s].github_app_install
           THEN Put(c, [k EXCEPT !.pc = "done", !.status = "Unsupported"], heap, repos)
           ELSE Issue(c, [k EXCEPT !.trace = Append(@, "mkdtemp")], "clone", "await_clone", heap,
                      [repos EXCEPT ![TmpOf(c)] =
                          [kind |-> "dir", name |-> "tmp", remotes |-> << >>, branch |-> None, head |-> None]])
        /\ UNCHANGED <<orgs, projects, client>>

\* git.Repo.clone_from run by asyncio.to_thread ends
RespClone(c) ==
    LET k == calls[c]
        kd == [k EXCEPT !.trace = Append(@, "clone_end")]
    IN  /\ k.pc = "await_clone"
        /\ \E ok \in BOOLEAN, u \in GitUrls :
              IF ok
              THEN SyncLocalStart(c, kd, heap,
                      [repos EXCEPT ![k.repo] =
                          [kind |-> "git", name |-> "tmp",
                           remotes |-> <<[name |-> "origin", url |-> PlainUrl(u)]>>,
                           branch |-> "main", head |-> "c1"]])
              ELSE Raise(c, kd, "GitCommandError", heap, repos)
        /\ UNCHANGED <<orgs, projects, client>>

\* project._refresh() is called on a Project the caller holds
BeginRefresh(c, s) ==
    /\ MayBegin(c)
    /\ heap[s].live
    /\ RefreshStart(c, [NewCall("_refresh") EXCEPT !.p = s, !.snap = heap[s].branches,
                                                   !.linked = heap[s].github_app_install],
                    heap, repos)
    /\ UNCHANGED <<orgs, projects, client>>

\* variant: the name is looked up in the branches the service has now
GetBranchAsksService(c, s, name) ==
    LET k == [NewCall("get_branch") EXCEPT !.p = s, !.snap = heap[s].branches,
                                           !.key = StrKey(name)]
        IsIt(b) == b = name
        p == ProjectIndexById(heap[s].id)
        i == IF p = 0 THEN 0 ELSE FirstIndex(projects[p].features, IsIt)
    IN  /\ MayBegin(c)
        /\ heap[s].live
        /\ IF i = 0
           THEN Put(c, [k EXCEPT !.pc = "done", !.status = "NotFound"], heap, repos)
           ELSE Put(c, [k EXCEPT !.pc = "done", !.status = "ok",
                                 !.branch = [NewBranch(name) EXCEPT !.project = s, !.api = TRUE]],
                    heap, repos)
        /\ UNCHANGED <<orgs, projects, client>>

\* project.get_branch(name): no suspension point, it runs in one piece
\* (the record of the call keeps the name asked for in key)
GetBranch(c, s, name) ==
    LET k == [NewCall("get_branch") EXCEPT !.p = s, !.snap = heap[s].branches,
                                           !.key = StrKey(name)]
        IsIt(b) == b.name = name
        i == FirstIndex(heap[s].branches, IsIt)
    IN  /\ MayBegin(c)
        /\ heap[s].live
        /\ IF i = 0
           THEN Put(c, [k EXCEPT !.pc = "done", !.status = "NotFound"], heap, repos)
           ELSE Put(c, [k EXCEPT !.pc = "done", !.status = "ok",
                                 !.branch = heap[s].branches[i]], heap, repos)
        /\ UNCHANGED <<orgs, projects, client>>

\* ------------------------------------------------------- the service
Without(seq, j) == [i \in 1..(Len(seq) - 1) |-> IF i < j THEN seq[i] ELSE seq[i + 1]]

\* Between two calls of this client a branch of a project is deleted on
\* the service (the project prefix then answers without it); the record of
\* the completed call is not kept.
ServiceDeletesBranch(i, j) ==
    /\ projects' = [projects EXCEPT ![i].features = Without(@, j),
                                    ![i].heads = Without(@, j)]
    /\ calls' = [c \in Coros |-> IdleCall]
    /\ UNCHANGED <<orgs, repos, client, heap>>

\* Between two calls of this client the project is renamed, linked to (or
\* unlinked from) GitHub or given a new clone token on the service: the
\* project prefix then answers with these values, under the same id.
ServiceChangesProject(i, name, gh, token) ==
    /\ projects' = [projects EXCEPT ![i].name = name, ![i].github_app_install = gh,
                                    ![i].clone_token = token]
    /\ projects' # projects
    /\ calls' = [c \in Coros |-> IdleCall]
    /\ UNCHANGED <<orgs, repos, client, heap>>

\* --------------------------------------------------------------- Next
\* The blocking entry points (sync_method: asyncio.run of the coroutine)
\* run one call at a time, on coroutine 1.
Quiet == \A c \in Coros : calls[c].pc \in {"idle", "done"}

Next ==
    \/ Quiet /\ \E key \in Keys : BeginGetProject(1, key)
    \/ Quiet /\ \E repo \in Paths, create \in BOOLEAN : BeginLoadProject(1, repo, create)
    \/ Quiet /\ \E s \in Slots, repo \in Paths : BeginSyncLocal(1, s, repo)
    \/ Quiet /\ \E s \in Slots, u \in GitUrls : BeginSyncRemote(1, s, u)
    \/ Quiet /\ \E s \in Slots : BeginRefresh(1, s)
    \/ Quiet /\ \E s \in Slots, b \in BranchNames : GetBranch(1, s, b)
    \/ RespOrgs(1)
    \/ RespOrg(1)
    \/ RespGet(1)
    \/ RespList(1)
    \/ RespCreate(1)
    \/ RespPush(1)
    \/ RespRefresh(1)
    \/ RespClone(1)

Spec == Init /\ [][Next]_vars

\* ------------------------------------------- a project already loaded
\* The client holds the Project that an earlier load_project returned; the
\* service has one or two branches of it, pushed from another clone (head
\* c0), and may delete branches between the calls.  r1 already has the
\* 'bismuth' remote of that project or not yet.
InitLoaded ==
    /\ orgs = <<1>>
    /\ client = [organization |-> 0, organization_id |-> 1, memo_set |-> FALSE, memo |-> << >>]
    /\ \E fs \in {<<"main">>, <<"main", "dev">>, <<"dev", "main">>} :
          LET sp == [ServerProject(1, "app", FALSE) EXCEPT
                        !.features = fs, !.heads = [i \in 1..Len(fs) |-> "c0"]]
          IN  /\ projects = <<sp>>
              /\ heap = [s \in Slots |-> Refreshed([NewProject(sp) EXCEPT !.live = TRUE], s, sp)]
    /\ \E rem1 \in {<< >>, <<[name |-> "bismuth", url |-> StaleUrl]>>} :
          repos = [d \in Paths |->
                     IF d = "r1" THEN [kind |-> "git", name |-> "app", remotes |-> rem1, branch |-> "main", head |-> "c1"]
                     ELSE IF d = "r2" THEN [kind |-> "git", name |-> "lib", remotes |-> <<OriginRemote>>, branch |-> "dev", head |-> "c2"]
                     ELSE IF d = PlainDir THEN [kind |-> "dir", name |-> "plain", remotes |-> << >>, branch |-> None, head |-> None]
                     ELSE AbsentDir]
    /\ calls = [c \in Coros |-> IdleCall]

NextLoaded ==
    \/ Quiet /\ \E s \in Slots, repo \in Paths : BeginSyncLocal(1, s, repo)
    \/ Quiet /\ \E s \in Slots, u \in GitUrls : BeginSyncRemote(1, s, u)
    \/ Quiet /\ \E s \in Slots : BeginRefresh(1, s)
    \/ Quiet /\ \E s \in Slots, b \in BranchNames : GetBranch(1, s, b)
    \/ RespPush(1)
    \/ RespRefresh(1)
    \/ RespClone(1)
    \/ Quiet /\ \E i \in 1..Len(projects) : \E j \in 1..Len(projects[i].features) :
          ServiceDeletesBranch(i, j)
    \/ Quiet /\ \E i \in 1..Len(projects), name \in {"app", "lib"}, gh \in BOOLEAN,
                   token \in {TokenOf(1), TokenOf(3)} :
          ServiceChangesProject(i, name, gh, token)

SpecLoaded == InitLoaded /\ [][NextLoaded]_vars

\* ------------------------------------------- two overlapping coroutines
\* The awaitable entry points (get_project_async, load_project_async) let
\* two calls on one client overlap in one event loop: each coroutine makes
\* one call, the second begins before, while or after the first runs, and
\* the two are resumed in any order.  Each call has a Project object of its
\* own.
ConcSlots == 1..(MaxObjs + 1)
ConcKeys == {StrKey("app"), IntKey(1)}

InitConc ==
    /\ projects \in {<< >>, <<[ServerProject(1, "app", FALSE) EXCEPT
                                  !.features = <<"main">>, !.heads = <<"c0">>]>>}
    /\ repos = [d \in Paths |->
                  IF d = "r1" THEN [kind |-> "git", name |-> "app", remotes |-> << >>, branch |-> "main", head |-> "c1"]
                  ELSE IF d = "r2" THEN [kind |-> "git", name |-> "lib", remotes |-> <<OriginRemote>>, branch |-> "dev", head |-> "c2"]
                  ELSE IF d = PlainDir THEN [kind |-> "dir", name |-> "plain", remotes |-> << >>, branch |-> None, head |-> None]
                  ELSE AbsentDir]
    /\ \E cfg \in {<<(<<2>>), 0>>, <<(<<1>>), 1>>, <<(<<1, 2>>), 0>>} :
          /\ orgs = cfg[1]
          /\ client = [organization |-> 0, organization_id |-> cfg[2],
                       memo_set |-> FALSE, memo |-> << >>]
    /\ heap = [s \in ConcSlots |-> NoObj]
    /\ calls = [c \in Coros |-> IdleCall]

NextConc ==
    \/ \E c \in Coros, key \in ConcKeys : calls[c].pc = "idle" /\ BeginGetProject(c, key)
    \/ \E c \in Coros, repo \in GitRepos, create \in BOOLEAN :
          calls[c].pc = "idle" /\ BeginLoadProject(c, repo, create)
    \/ \E c \in Coros : RespOrgs(c)
    \/ \E c \in Coros : RespOrg(c)
    \/ \E c \in Coros : RespGet(c)
    \/ \E c \in Coros : RespList(c)
    \/ \E c \in Coros : RespCreate(c)
    \/ \E c \in Coros : RespPush(c)
    \/ \E c \in Coros : RespRefresh(c)

SpecConc == InitConc /\ [][NextConc]_vars

\* ------------------------------- refresh and get_branch on one Project
\* Two coroutines of one event loop work on a Project the client holds:
\* each makes one call, _refresh (awaitable) or get_branch (synchronous).
\* The Project came from get_project by id (its branches carry no
\* back-reference) or from a call that refreshed it, and the service's
\* branches have changed since.  After the loop over the new branches
\* _refresh only closes its http client, which touches nothing of the
\* Project: a get_branch that runs during that close is one that runs after
\* RespRefresh.
InitRace ==
    /\ orgs = <<1>>
    /\ client = [organization |-> 0, organization_id |-> 1, memo_set |-> FALSE, memo |-> << >>]
    /\ \E fs0 \in {<<"main">>, <<"dev", "main">>}, fs \in {<<"main">>, <<"main", "dev">>, <<"dev">>},
          byid \in BOOLEAN :
          LET sp0 == [ServerProject(1, "app", FALSE) EXCEPT
                         !.features = fs0, !.heads = [i \in 1..Len(fs0) |-> "c0"]]
              sp == [sp0 EXCEPT !.features = fs, !.heads = [i \in 1..Len(fs) |-> "c0"]]
          IN  /\ projects = <<sp>>
              /\ heap = [s \in Slots |->
                           IF byid THEN [NewProject(sp0) EXCEPT !.live = TRUE]
                           ELSE Refreshed([NewProject(sp0) EXCEPT !.live = TRUE], s, sp0)]
    /\ repos = [d \in Paths |->
                  IF d = "r1" THEN [kind |-> "git", name |-> "app", remotes |-> << >>, branch |-> "main", head |-> "c1"]
                  ELSE IF d = "r2" THEN [kind |-> "git", name |-> "lib", remotes |-> <<OriginRemote>>, branch |-> "dev", head |-> "c2"]
                  ELSE IF d = PlainDir THEN [kind |-> "dir", name |-> "plain", remotes |-> << >>, branch |-> None, head |-> None]
                  ELSE AbsentDir]
    /\ calls = [c \in Coros |-> IdleCall]

NextRace ==
    \/ \E c \in Coros, s \in Slots : calls[c].pc = "idle" /\ BeginRefresh(c, s)
    \/ \E c \in Coros, s \in Slots, b \in BranchNames : calls[c].pc = "idle" /\ GetBranch(c, s, b)
    \/ \E c \in Coros : RespRefresh(c)

SpecRace == InitRace /\ [][NextRace]_vars

\* ===================================================================
\* Properties
\* ===================================================================
Done(c) == calls[c].pc = "done"
Occurs(trace, ev) == Count(trace, LAMBDA e : e = ev)
BismuthCount(remotes) == Count(remotes, LAMBDA r : r.name = "bismuth")
HttpEvents == {"GET organizations", "GET organizations/id", "GET projects/list",
               "GET projects/id", "POST projects", "refresh"}
GitEvents == {"create_remote", "set_url", "push", "clone"}
\* the token the 'bismuth' remote of a remote list carries, None without one
TokenIn(remotes) ==
    LET i == FirstIndex(remotes, LAMBDA r : r.name = "bismuth")
    IN  IF i = 0 THEN None ELSE remotes[i].url.password
Listed(token) == \E i \in 1..Len(projects) : projects[i].clone_token = token

\* C1: a successful load_project(repo, create=true) on a git repository
\* without a 'bismuth' remote has issued exactly one create-project request,
\* named after the repository directory, has left the repository with
\* exactly one 'bismuth' remote, and returns the project the service created.
C1_LoadCreatesOneProjectOneRemote ==
    \A c \in Coros :
        LET k == calls[c] IN
        (Done(c) /\ k.op = "load_project" /\ k.status = "ok" /\ k.create
            /\ BismuthCount(k.remotes0) = 0)
        => /\ Occurs(k.trace, "POST projects") = 1
           /\ BismuthCount(repos[k.repo].remotes) = 1
           /\ Len(projects) = k.nprojects0 + 1
           /\ LET sp == projects[Len(projects)] IN
              /\ sp.name = repos[k.repo].name
              /\ heap[k.p].live
              /\ heap[k.p].id = sp.id
              /\ heap[k.p].name = sp.name
              /\ heap[k.p].clone_token = sp.clone_token

C1_Witness ==
    /\ Done(1) /\ calls[1].op = "load_project" /\ calls[1].status = "ok"
    /\ calls[1].create /\ BismuthCount(calls[1].remotes0) = 0
    /\ Occurs(calls[1].trace, "POST projects") = 1

\* C2: when the repository has a 'bismuth' remote whose URL password is the
\* clone_token of a listed project, load_project issues no create-project
\* request, pushes nothing, leaves the remotes as they were, and (unless a
\* request fails or the organization cannot be inferred) returns the
\* project with that clone_token.
C2_LoadExistingReturnsMatch ==
    \A c \in Coros :
        LET k == calls[c] IN
        (Done(c) /\ k.op = "load_project" /\ BismuthCount(k.remotes0) > 0
            /\ Listed(TokenIn(k.remotes0)))
        => /\ Occurs(k.trace, "POST projects") = 0
           /\ Occurs(k.trace, "push") = 0
           /\ repos[k.repo].remotes = k.remotes0
           /\ Len(projects) = k.nprojects0
           /\ k.status \in {"ok", "Transport", "Ambiguous"}
           /\ k.status = "ok" =>
                 /\ heap[k.p].live
                 /\ heap[k.p].clone_token = TokenIn(k.remotes0)
                 /\ \E i \in 1..Len(projects) :
                       /\ projects[i].clone_token = TokenIn(k.remotes0)
                       /\ projects[i].id = heap[k.p].id

C2_Witness ==
    /\ Done(1) /\ calls[1].op = "load_project" /\ calls[1].status = "ok"
    /\ BismuthCount(calls[1].remotes0) > 0
    /\ Listed(TokenIn(calls[1].remotes0))
    /\ Len(projects) > 1

\* C3: when the repository has a 'bismuth' remote whose token is the
\* clone_token of no listed project, load_project (create true or false)
\* never returns: it raises Inconsistent once the project list is fetched
\* (a failed request or an ambiguous organization raises first), it creates
\* no project and leaves the remotes as they were.
C3_LoadUnknownTokenInconsistent ==
    \A c \in Coros :
        LET k == calls[c] IN
        (Done(c) /\ k.op = "load_project" /\ BismuthCount(k.remotes0) > 0
            /\ ~Listed(TokenIn(k.remotes0)))
        => /\ k.status \in {"Inconsistent", "Transport", "Ambiguous"}
           /\ (Occurs(k.trace, "GET projects/list") = 1 /\ k.status # "Transport")
                 => k.status = "Inconsistent"
           /\ Occurs(k.trace, "POST projects") = 0
           /\ Len(projects) = k.nprojects0
           /\ repos[k.repo].remotes = k.remotes0

C3_Witness ==
    /\ Done(1) /\ calls[1].op = "load_project" /\ calls[1].create
    /\ calls[1].status = "Inconsistent"
    /\ BismuthCount(calls[1].remotes0) > 0
    /\ Len(projects) > 0

\* C4: every Branch get_branch returns, from a Project the client handed out
\* (get_project by id or by name, load_project, or after a completed
\* synchronize_local / refresh), has its project back-reference and its
\* client handle set.
C4_BranchBackReferenceSet ==
    \A c \in Coros :
        LET k == calls[c] IN
        (Done(c) /\ k.op = "get_branch" /\ k.status = "ok")
        => (k.branch.project = k.p /\ k.branch.api)

\* what C5 compares of two Project objects
View(obj) ==
    [id |-> obj.id, name |-> obj.name, hash |-> obj.hash,
     clone_token |-> obj.clone_token,
     branches |-> {obj.branches[i].name : i \in 1..Len(obj.branches)}]

\* C5 as claimed: for every listed project P, get_project(P.name) returns
\* the same project (id, name, hash, clone_token, branch names) as
\* get_project(P.id).
C5_ByNameSameAsByIdForEveryProject ==
    \A c \in Coros :
        LET k == calls[c] IN
        (Done(c) /\ k.op = "get_project" /\ k.status = "ok" /\ k.key.kind = "str")
        => \A i \in 1..Len(projects) :
              projects[i].name = k.key.name => View(heap[k.p]) = View(ById(projects[i].id))

\* C5 amended: get_project(P.name) returns the same project as
\* get_project(P.id) for the project P that is the first of its name in the
\* organization's project list (for every P when names are unique).
C5_ByNameSameAsByIdForFirstOfName ==
    \A c \in Coros :
        LET k == calls[c] IN
        (Done(c) /\ k.op = "get_project" /\ k.status = "ok" /\ k.key.kind = "str")
        => \A i \in 1..Len(projects) :
              (/\ projects[i].name = k.key.name
               /\ \A j \in 1..(i - 1) : projects[j].name # k.key.name)
              => View(heap[k.p]) = View(ById(projects[i].id))

C5_Witness ==
    /\ Done(1) /\ calls[1].op = "get_project" /\ calls[1].status = "ok"
    /\ calls[1].key.kind = "str"
    /\ Len(projects) = 2 /\ projects[1].name = projects[2].name
    /\ projects[1].features # << >>

\* C6: synchronize_local on a Project whose github_app_install is set raises
\* Unsupported before anything else: no request, no push, no change to the
\* remotes of the given directory (git repository or not), to the service
\* or to the Project's branch list.
C6_SyncLocalLinkedUnsupportedFirst ==
    \A c \in Coros :
        LET k == calls[c] IN
        (k.op = "synchronize_git_local" /\ heap[k.p].github_app_install)
        => /\ Done(c)
           /\ k.status = "Unsupported"
           /\ k.trace = << >>
           /\ repos[k.repo].remotes = k.remotes0
           /\ Len(projects) = k.nprojects0
           /\ heap[k.p].branches = k.snap

C6_Witness ==
    /\ Done(1) /\ calls[1].op = "synchronize_git_local"
    /\ heap[calls[1].p].github_app_install
    /\ calls[1].status = "Unsupported"
    /\ repos[calls[1].repo].kind = "git"

\* C7: whatever the sequence of load_project, synchronize_local and
\* synchronize_remote calls, a call working on a Project whose
\* github_app_install is set (the Project the create request returned
\* included) makes no temporary directory, clones nothing, creates or
\* updates no remote and pushes nothing, and it raises Unsupported when it
\* is a synchronization.
C7_LinkedProjectNeverSynchronized ==
    \A c \in Coros :
        LET k == calls[c] IN
        (k.op \in {"load_project", "synchronize_git_local", "synchronize_git_remote"}
            /\ k.linked)
        => /\ \A i \in 1..Len(k.trace) : k.trace[i] \notin GitEvents \cup {"mkdtemp"}
           /\ repos[k.repo].remotes = k.remotes0
           /\ (Done(c) /\ (k.op # "load_project" \/ Occurs(k.trace, "POST projects") = 1))
                 => k.status = "Unsupported"

C7_Witness ==
    /\ Done(1) /\ calls[1].op = "synchronize_git_remote" /\ calls[1].linked
    /\ calls[1].status = "Unsupported"
    /\ \E i \in 1..Len(projects) : ~projects[i].github_app_install

\* position of the first occurrence of ev in a trace, 0 without one
Pos(trace, ev) == FirstIndex(trace, LAMBDA e : e = ev)
AttachPos(trace) == FirstIndex(trace, LAMBDA e : e \in {"create_remote", "set_url"})
SyncOps == {"load_project", "synchronize_git_local", "synchronize_git_remote"}

\* C8: within one synchronize_local (also from load_project's creation
\* path and from synchronize_remote) the steps come in the order attach
\* remote, push, refresh: the refresh request goes out only after the push
\* has ended, the two are never in flight together, each happens at most
\* once, and the call returns only after the refresh has answered.
C8_AttachPushRefreshInOrder ==
    \A c \in Coros :
        LET k == calls[c]
            t == k.trace
        IN
        (k.op \in SyncOps /\ AttachPos(t) # 0)
        => /\ Occurs(t, "push") <= 1 /\ Occurs(t, "refresh") <= 1
           /\ Pos(t, "push") # 0 => AttachPos(t) < Pos(t, "push")
           /\ Pos(t, "push_end") # 0 => Pos(t, "push") # 0 /\ Pos(t, "push") < Pos(t, "push_end")
           /\ Pos(t, "refresh") # 0 =>
                 Pos(t, "push_end") # 0 /\ Pos(t, "push_end") < Pos(t, "refresh")
           /\ k.pc = "await_push" => Pos(t, "refresh") = 0
           /\ k.pc = "await_refresh" => Pos(t, "push_end") # 0
           /\ (Done(c) /\ k.status = "ok") =>
                 /\ Pos(t, "refresh") # 0
                 /\ t[Len(t)] = "refresh_end"

C8_Witness ==
    /\ Done(1) /\ calls[1].op = "synchronize_git_local" /\ calls[1].status = "ok"
    /\ Pos(calls[1].trace, "set_url") # 0
    /\ calls[1].trace[Len(calls[1].trace)] = "refresh_end"

\* C9: if the push inside synchronize_local fails, the call (and
\* load_project / synchronize_remote around it) raises that failure, no
\* refresh request is issued and the Project's branch list stays as it was.
C9_PushFailureRaisedNoRefresh ==
    \A c \in Coros :
        LET k == calls[c] IN
        (k.op \in SyncOps /\ k.push \in {"raised", "rejected"})
        => /\ Done(c)
           /\ k.status = "GitCommandError"
           /\ Occurs(k.trace, "refresh") = 0
           /\ ~k.built => heap[k.p].branches = k.snap

\* C10: once a synchronize_local has attached the remote, the repository
\* has exactly one remote named 'bismuth' and its URL is the push URL of
\* the Project of that (the latest) call; no repository ever has two; a
\* call on a repository that had the remote keeps every remote in its
\* place and changes nothing but that URL; a call with the Project whose
\* URL the remote already carried leaves the remotes as they were.
C10_OneRemoteLatestUrl ==
    /\ \A d \in Paths : BismuthCount(repos[d].remotes) <= 1
    /\ \A c \in Coros :
          LET k == calls[c]
              now == repos[k.repo].remotes
              i == RemoteIndex(repos[k.repo], "bismuth")
          IN
          (k.op = "synchronize_git_local" /\ AttachPos(k.trace) # 0)
          => /\ BismuthCount(now) = 1
             /\ now[i].url = PushUrl(heap[k.p])
             /\ BismuthCount(k.remotes0) = 1 =>
                   /\ Len(now) = Len(k.remotes0)
                   /\ \A j \in 1..Len(now) :
                         /\ now[j].name = k.remotes0[j].name
                         /\ now[j].name # "bismuth" => now[j] = k.remotes0[j]
             /\ (BismuthCount(k.remotes0) = 1 /\ TokenIn(k.remotes0) = heap[k.p].clone_token)
                   => now = k.remotes0
             /\ BismuthCount(k.remotes0) = 0 =>
                   now = Append(k.remotes0, [name |-> "bismuth", url |-> PushUrl(heap[k.p])])

\* a second Project has been synchronized into a repository that carried
\* the remote of another one
C10_Witness ==
    /\ Done(1) /\ calls[1].op = "synchronize_git_local" /\ calls[1].status = "ok"
    /\ BismuthCount(calls[1].remotes0) = 1
    /\ Listed(TokenIn(calls[1].remotes0))
    /\ TokenIn(calls[1].remotes0) # heap[calls[1].p].clone_token
    /\ Len(repos[calls[1].repo].remotes) = 2

\* ======================================================================
\* The remote URL as text.  synchronize_git_local builds the push URL with
\* an f-string, urlparse, ParseResult._replace and urlunparse (lines
\* 263-266); load_project reads the credential back with
\* urlparse(url).password (line 209).  Here a URL is the sequence of its
\* characters (a run of letters or digits that no parser looks into is one
\* element), and both directions are computed as urllib.parse computes
\* them.
MaxTokenLen == 3      \* characters of a clone token at most

NoText == <<"None">>                   \* None where a text is expected
TokenChars == {"a", ":", "@", "/", "?"}
TextsUpTo(n) == UNION {[1..m -> TokenChars] : m \in 0..n}
TokenTexts == TextsUpTo(MaxTokenLen)
\* base_url: the default "https://api.bismuth.cloud" and the
\* "http://localhost:8080" the test suite's service listens on
BaseTexts == {<<"https", ":", "/", "/", "api.bismuth.cloud">>,
              <<"http", ":", "/", "/", "localhost", ":", "8080">>}
HashTexts == {<<"h1">>}

\* str.find / str.rfind, 1-based; 0 when the character does not occur
Find(s, ch) ==
    LET hits == {i \in 1..Len(s) : s[i] = ch}
    IN  IF hits = {} THEN 0 ELSE CHOOSE i \in hits : \A j \in hits : i <= j
RFind(s, ch) ==
    LET hits == {i \in 1..Len(s) : s[i] = ch}
    IN  IF hits = {} THEN 0 ELSE CHOOSE i \in hits : \A j \in hits : i >= j
Tail2(s, i) == SubSeq(s, i, Len(s))         \* s[i-1:] of python

\* urllib.parse._splitnetloc: the netloc ends at the first of / ? #
NetlocEnd(s, start) ==
    LET hits == {i \in start..Len(s) : s[i] \in {"/", "?", "#"}}
    IN  IF hits = {} THEN Len(s) + 1 ELSE CHOOSE i \in hits : \A j \in hits : i <= j

\* urllib.parse.urlsplit (urlparse adds the ;params split, which no text
\* here has): scheme up to the first colon, netloc after //, then the
\* fragment after # and the query after ?
UrlParse(s) ==
    LET i == Find(s, ":")
        has_scheme == i > 1 /\ \A j \in 1..(i - 1) : s[j] \notin {"/", "?", "#", "@", ":"}
        scheme == IF has_scheme THEN SubSeq(s, 1, i - 1) ELSE << >>
        rest == IF has_scheme THEN Tail2(s, i + 1) ELSE s
        has_net == Len(rest) >= 2 /\ rest[1] = "/" /\ rest[2] = "/"
        d == NetlocEnd(rest, 3)
        netloc == IF has_net THEN SubSeq(rest, 3, d - 1) ELSE << >>
        url1 == IF has_net THEN Tail2(rest, d) ELSE rest
        f == Find(url1, "#")
        fragment == IF f > 0 THEN Tail2(url1, f + 1) ELSE << >>
        url2 == IF f > 0 THEN SubSeq(url1, 1, f - 1) ELSE url1
        q == Find(url2, "?")
        query == IF q > 0 THEN Tail2(url2, q + 1) ELSE << >>
        path == IF q > 0 THEN SubSeq(url2, 1, q - 1) ELSE url2
    IN  [scheme |-> scheme, netloc |-> netloc, path |-> path,
         query |-> query, fragment |-> fragment]

\* urllib.parse.urlunsplit
UrlUnparse(u) ==
    LET url0 == IF u.netloc # << >>
                THEN <<"/", "/">> \o u.netloc
                     \o (IF u.path # << >> /\ u.path[1] # "/" THEN <<"/">> ELSE << >>)
                     \o u.path
                ELSE u.path
        url1 == IF u.scheme # << >> THEN u.scheme \o <<":">> \o url0 ELSE url0
        url2 == IF u.query # << >> THEN url1 \o <<"?">> \o u.query ELSE url1
    IN  IF u.fragment # << >> THEN url2 \o <<"#">> \o u.fragment ELSE url2

\* _NetlocResultMixinStr._userinfo: netloc.rpartition('@'), then
\* userinfo.partition(':')
UserInfo(netloc) ==
    LET at == RFind(netloc, "@")
        userinfo == SubSeq(netloc, 1, at - 1)
        colon == Find(userinfo, ":")
    IN  IF at = 0 THEN [username |-> NoText, password |-> NoText]
        ELSE IF colon = 0 THEN [username |-> userinfo, password |-> NoText]
        ELSE [username |-> SubSeq(userinfo, 1, colon - 1),
              password |-> Tail2(userinfo, colon + 1)]

\* _NetlocResultMixinStr._hostinfo: what follows the last '@', split at
\* the colon into hostname and port
HostInfo(netloc) ==
    LET hostinfo == Tail2(netloc, RFind(netloc, "@") + 1)
        colon == Find(hostinfo, ":")
    IN  IF colon = 0 THEN [hostname |-> hostinfo, port |-> NoText]
        ELSE [hostname |-> SubSeq(hostinfo, 1, colon - 1),
              port |-> Tail2(hostinfo, colon + 1)]

\* lines 263-266 and urlunparse(url) of lines 270 / 272
PushUrlText(base_url, obj) ==
    LET url == UrlParse(base_url \o <<"/", "git", "/">> \o obj.hash)
    IN  UrlUnparse([url EXCEPT !.netloc =
            <<"git", ":">> \o obj.clone_token \o <<"@">> \o url.netloc])

\* line 209: urllib.parse.urlparse(bismuth_remote.url).password
UrlTextPassword(url) == UserInfo(UrlParse(url).netloc).password

\* ---- the two code paths that write and read the URL, over texts
UrlProject(id, name, hash, token) ==
    [id |-> id, name |-> name, hash |-> hash, clone_token |-> token,
     github_app_install |-> FALSE, features |-> <<"main">>, heads |-> <<"c0">>]

UrlIdle == [op |-> "idle", pc |-> "start", repo |-> None, p |-> 0, token |-> NoText,
            url |-> NoText, push |-> None, status |-> "idle", fresh |-> FALSE]

\* A service that lists two projects with different clone tokens, a client
\* holding the second as a Project object, and a repository r1 that has no
\* 'bismuth' remote yet or one left from an earlier project.
InitUrl ==
    /\ orgs = <<1>>
    /\ \E token \in TokenTexts \ {<<"a">>}, hash \in HashTexts :
          /\ projects = <<UrlProject(1, "lib", <<"h0">>, <<"a">>),
                          UrlProject(2, "app", hash, token)>>
          /\ heap = [s \in Slots |-> [NewProject(UrlProject(2, "app", hash, token))
                                         EXCEPT !.live = TRUE]]
    /\ \E base_url \in BaseTexts :
          client = [organization |-> 1, organization_id |-> 1, base_url |-> base_url]
    /\ \E rem \in {<< >>, <<[name |-> "bismuth", url |-> <<"stale">>]>>} :
          repos = [d \in {"r1"} |->
                     [kind |-> "git", name |-> "app", remotes |-> rem, branch |-> "main", head |-> "c1"]]
    /\ calls = [c \in Coros |-> UrlIdle]

\* the git endpoint serves {base_url}/git/{hash} to the holder of the
\* project's clone token: the push reaches it when the URL, read as a URL,
\* names that host, port and path with that credential
EndpointAccepts(url, sp) ==
    LET u == UrlParse(url)
        b == UrlParse(client.base_url)
    IN  /\ u.scheme = b.scheme
        /\ HostInfo(u.netloc) = HostInfo(b.netloc)
        /\ u.path = <<"/", "git", "/">> \o sp.hash
        /\ UserInfo(u.netloc).password = sp.clone_token

\* synchronize_git_local_async, lines 263-282: build the URL, create the
\* remote or set its URL, push, refresh.  The push can succeed only when
\* the URL reaches the endpoint; it can fail for any reason.  fresh records
\* that the repository had no 'bismuth' remote (as on load_project's
\* creation path, lines 204-206).
UrlSyncLocal(c, s, d) ==
    LET k == calls[c]
        url == PushUrlText(client.base_url, heap[s])
    IN  /\ k.pc = "start"
        /\ repos' = [repos EXCEPT ![d] = AttachRemote(repos[d], url)]
        /\ \E ok \in {b \in BOOLEAN : b => EndpointAccepts(url, projects[2])} :
              calls' = [calls EXCEPT ![c] =
                 [k EXCEPT !.op = "synchronize_git_local", !.pc = "synced", !.repo = d,
                           !.p = s, !.url = url,
                           !.fresh = (RemoteIndex(repos[d], "bismuth") = 0),
                           !.push = IF ok THEN "ok" ELSE "raised",
                           !.status = IF ok THEN "ok" ELSE "GitCommandError"]]
        /\ UNCHANGED <<orgs, projects, client, heap>>

\* load_project_async, lines 187-220, on a repository that has the remote:
\* read the token from the remote's URL, return the first listed project
\* with that clone_token
UrlLoadProject(c, d) ==
    LET k == calls[c]
        i == RemoteIndex(repos[d], "bismuth")
        clone_token == UrlTextPassword(repos[d].remotes[i].url)
        IsIt(sp) == sp.clone_token = clone_token
        j == FirstIndex(projects, IsIt)
    IN  /\ k.pc = "synced" /\ k.repo = d
        /\ i > 0
        /\ calls' = [calls EXCEPT ![c] =
               [k EXCEPT !.op = "load_project", !.pc = "loaded", !.token = clone_token,
                         !.p = IF j > 0 THEN projects[j].id ELSE 0,
                         !.status = IF j > 0 THEN "ok" ELSE "Inconsistent"]]
        /\ UNCHANGED <<orgs, projects, repos, client, heap>>

NextUrl ==
    \/ \E s \in Slots : UrlSyncLocal(1, s, "r1")
    \/ UrlLoadProject(1, "r1")

SpecUrl == InitUrl /\ [][NextUrl]_vars

\* C11: the token load_project extracts from the 'bismuth' remote URL that
\* synchronize_local wrote for Project P is P.clone_token, and after a
\* successful synchronize_local a load_project on that repository returns P
\* while the service lists P.
C11_ExtractedTokenIsCloneToken ==
    \A c \in Coros :
        LET k == calls[c] IN
        (k.op = "load_project" /\ k.pc = "loaded")
        => /\ k.token = projects[2].clone_token
           /\ k.push = "ok" => (k.status = "ok" /\ k.p = projects[2].id)

\* C12: the push URL synchronize_local builds has the base URL's scheme,
\* host and port, the path /git/{hash} and the userinfo git:{clone_token}.
C12_PushUrlComponents ==
    \A c \in Coros :
        LET k == calls[c]
            u == UrlParse(k.url)
            b == UrlParse(client.base_url)
        IN  (k.op = "synchronize_git_local" /\ k.pc = "synced")
            => /\ u.scheme = b.scheme
               /\ HostInfo(u.netloc) = HostInfo(b.netloc)
               /\ u.path = <<"/", "git", "/">> \o heap[k.p].hash
               /\ UserInfo(u.netloc) =
                     [username |-> <<"git">>, password |-> heap[k.p].clone_token]
               /\ u.query = << >> /\ u.fragment = << >>

\* the calls that end with Project._refresh
RefreshingOps == {"_refresh", "synchronize_git_local", "synchronize_git_remote"}

\* C13: after a refresh that succeeded, the Project's branch list is the
\* list the service answered, in its order: a branch the service no longer
\* has is gone, nothing of the old list is kept, and every branch refers
\* back to this Project and carries its client handle.
C13_RefreshReplacesBranches ==
    \A c \in Coros :
        LET k == calls[c]
            i == ProjectIndexById(heap[k.p].id)
        IN  (Done(c) /\ k.status = "ok" /\ k.op \in RefreshingOps)
            => /\ i # 0
               /\ heap[k.p].branches =
                     [j \in 1..Len(projects[i].features) |->
                        [name |-> projects[i].features[j], project |-> k.p, api |-> TRUE]]

\* a refresh has succeeded on a Project that held a branch the service had
\* deleted in the meantime
C13_Witness ==
    /\ Done(1) /\ calls[1].op = "_refresh" /\ calls[1].status = "ok"
    /\ \E j \in 1..Len(calls[1].snap) :
          \A i \in 1..Len(heap[calls[1].p].branches) :
              heap[calls[1].p].branches[i].name # calls[1].snap[j].name
    /\ Len(heap[calls[1].p].branches) > 0

\* C14: synchronize_remote makes the temporary directory, then clones into
\* it; synchronize_local (attach, push, refresh) starts only after the clone
\* has ended and works on the clone; and however the call ends (returned,
\* clone failed, push failed, refresh failed) the temporary directory is
\* gone.
C14_TempDirScoped ==
    \A c \in Coros :
        LET k == calls[c]
            t == k.trace
        IN  k.op = "synchronize_git_remote"
            => /\ Done(c) => repos[TmpOf(c)].kind = "absent"
               /\ Occurs(t, "clone") = 1 => Pos(t, "mkdtemp") < Pos(t, "clone")
               /\ AttachPos(t) # 0 =>
                     /\ Occurs(t, "clone_end") = 1
                     /\ Pos(t, "clone") < Pos(t, "clone_end")
                     /\ Pos(t, "clone_end") < AttachPos(t)
               /\ k.pc \in {"await_push", "await_refresh"} =>
                     /\ k.repo = TmpOf(c)
                     /\ repos[TmpOf(c)].kind = "git"

\* a synchronize_remote whose push raised has ended
C14_Witness ==
    /\ Done(1) /\ calls[1].op = "synchronize_git_remote"
    /\ calls[1].status = "GitCommandError" /\ calls[1].push = "raised"
    /\ Occurs(calls[1].trace, "clone_end") = 1

\* the commit the service holds for a branch of the project with this id,
\* None when it has no such branch
ServerHead(id, branch) ==
    LET i == ProjectIndexById(id)
        IsIt(b) == b = branch
        j == IF i = 0 THEN 0 ELSE FirstIndex(projects[i].features, IsIt)
    IN  IF j = 0 THEN None ELSE projects[i].heads[j]

\* C15: after a synchronize_local that returned, the service's head of the
\* pushed branch (the checked-out branch of the repository) is the local
\* head, whatever the service held for that branch before.
C15_ServerHeadIsLocalHead ==
    \A c \in Coros :
        LET k == calls[c] IN
        (Done(c) /\ k.op = "synchronize_git_local" /\ k.status = "ok")
        => ServerHead(heap[k.p].id, repos[k.repo].branch) = repos[k.repo].head

\* ======================================================================
\* Branch.search and Branch.generate: one request to the service each,
\* on a Branch taken from a Project the client holds.
MaxHits == 3          \* entries of a search answer at most
MaxTop == 2           \* the largest top a caller passes
MaxLog == 2           \* warnings the logger keeps

TopDefault == 10      \* search_async(self, query, top=10)

\* entries of a search answer as the service serialises them: a function
\* and a class with their line ranges, and a whole file, for which end_line
\* is left out
Hits == {[type |-> "FUNCTION", file |-> "test.py", start_line |-> 1,
          has_end_line |-> TRUE, end_line |-> 3],
         [type |-> "CLASS", file |-> "lib.py", start_line |-> 2,
          has_end_line |-> TRUE, end_line |-> 9],
         [type |-> "FILE", file |-> "test.py", start_line |-> 1,
          has_end_line |-> FALSE, end_line |-> 0]}
HitLists == UNION {[1..n -> Hits] : n \in 0..MaxHits}

\* bodies of a generate answer: {diff, partial, error}
GenerateBodies ==
    [diff : {"", "--- test.py +++ test.py"}, partial : BOOLEAN, error : {None, "timeout"}]

AgentIdle ==
    [op |-> "idle", pc |-> "idle", p |-> 0, branch |-> None, top |-> 0,
     request |-> [path |-> None, query |-> None, top |-> 0],
     response |-> [status |-> 0, partial |-> FALSE, error |-> None, diff |-> None,
                   entries |-> << >>],
     result |-> << >>, diff |-> None, log0 |-> << >>, status |-> "idle"]

\* The client holds a Project whose branches carry their back-reference
\* (load_project, get_project by name) or not (get_project by id).
InitAgent ==
    /\ orgs = <<1>>
    /\ LET sp == [ServerProject(1, "app", FALSE) EXCEPT
                     !.features = <<"main">>, !.heads = <<"c1">>]
       IN  /\ projects = <<sp>>
           /\ \E refreshed \in BOOLEAN :
                 heap = [s \in Slots |->
                           IF refreshed
                           THEN Refreshed([NewProject(sp) EXCEPT !.live = TRUE], s, sp)
                           ELSE [NewProject(sp) EXCEPT !.live = TRUE]]
    /\ client = [organization |-> 1, organization_id |-> 1, memo_set |-> FALSE,
                 memo |-> << >>, log |-> << >>]
    /\ repos = [d \in Paths |-> AbsentDir]
    /\ calls = [c \in Coros |-> AgentIdle]

BranchIndex(obj, name) ==
    LET IsIt(b) == b.name = name IN FirstIndex(obj.branches, IsIt)

\* the call ends: returned (status ok) or raised
AgentEnd(c, k, status) ==
    calls' = [calls EXCEPT ![c] = [k EXCEPT !.pc = "done", !.status = status]]

\* variant: the caller's top is not passed on, the service applies the
\* default
SearchParamsDefaultTop(query, top) == [path |-> "search", query |-> query, top |-> TopDefault]

\* params={"query": query, "top": top} of GET {branch prefix}/search
SearchParams(query, top) == [path |-> "search", query |-> query, top |-> top]

\* branch.search_async(query, top) up to its request; self._api.client()
\* fails on a Branch that carries no client handle
BeginSearch(c, s, b, query, top) ==
    LET i == BranchIndex(heap[s], b)
        k == [AgentIdle EXCEPT !.op = "search", !.pc = "run", !.p = s, !.branch = b,
                               !.top = top, !.log0 = client.log, !.status = "running"]
    IN  /\ MayBegin(c)
        /\ heap[s].live /\ i # 0
        /\ IF ~heap[s].branches[i].api
           THEN AgentEnd(c, k, "AttributeError")
           ELSE calls' = [calls EXCEPT ![c] =
                    [k EXCEPT !.pc = "await_search", !.request = SearchParams(query, top)]]
        /\ UNCHANGED <<orgs, projects, repos, client, heap>>

\* V1SearchResult.model_validate(l): the four fields; end_line is declared
\* Optional[int] without a default, so an entry that leaves it out is
\* refused
Validates(l) == l.has_end_line
SearchResult(l) ==
    [type |-> l.type, file |-> l.file, start_line |-> l.start_line, end_line |-> l.end_line]

\* the search request answers: raise_for_status, then one V1SearchResult
\* per entry of the answer
RespSearch(c) ==
    LET k == calls[c] IN
    /\ k.pc = "await_search"
    /\ \E ok \in BOOLEAN, entries \in HitLists :
          LET kd == [k EXCEPT !.response.status = IF ok THEN 200 ELSE 500,
                              !.response.entries = IF ok THEN entries ELSE << >>]
          IN  IF ~ok
              THEN AgentEnd(c, kd, "Transport")
              ELSE IF \E i \in 1..Len(entries) : ~Validates(entries[i])
              THEN AgentEnd(c, kd, "ValidationError")
              ELSE AgentEnd(c, [kd EXCEPT !.result =
                                   [i \in 1..Len(entries) |-> SearchResult(entries[i])]], "ok")
    /\ UNCHANGED <<orgs, projects, repos, client, heap>>

\* branch.generate_async(message, ...) up to its request
BeginGenerate(c, s, b) ==
    LET i == BranchIndex(heap[s], b)
        k == [AgentIdle EXCEPT !.op = "generate", !.pc = "run", !.p = s, !.branch = b,
                               !.log0 = client.log, !.status = "running"]
    IN  /\ MayBegin(c)
        /\ heap[s].live /\ i # 0
        /\ Len(client.log) < MaxLog
        /\ IF ~heap[s].branches[i].api
           THEN AgentEnd(c, k, "AttributeError")
           ELSE calls' = [calls EXCEPT ![c] =
                    [k EXCEPT !.pc = "await_generate", !.request.path = "generate"]]
        /\ UNCHANGED <<orgs, projects, repos, client, heap>>

\* f"Potentially incomplete generation due to {j['error']}"
Warning(error) ==
    [level |-> "WARNING", text |-> "Potentially incomplete generation due to", error |-> error]

\* variant: a partial answer is raised to the caller as an error
GenerateOutcomePartialRaises(j) ==
    [status |-> IF j.partial THEN "PartialResult" ELSE "ok", diff |-> j.diff,
     warnings |-> << >>]

\* j = r.json(); if j["partial"]: warning(...); return r.json()["diff"]
GenerateOutcome(j) ==
    [status |-> "ok", diff |-> j.diff,
     warnings |-> IF j.partial THEN <<Warning(j.error)>> ELSE << >>]

\* the generate request answers
RespGenerate(c) ==
    LET k == calls[c] IN
    /\ k.pc = "await_generate"
    /\ \E ok \in BOOLEAN, j \in GenerateBodies :
          LET kd == [k EXCEPT !.response.status = IF ok THEN 200 ELSE 500,
                              !.response.partial = ok /\ j.partial,
                              !.response.error = IF ok THEN j.error ELSE None,
                              !.response.diff = IF ok THEN j.diff ELSE None]
              out == GenerateOutcome(j)
          IN  IF ~ok
              THEN AgentEnd(c, kd, "Transport") /\ UNCHANGED client
              ELSE /\ AgentEnd(c, [kd EXCEPT !.diff = IF out.status = "ok" THEN out.diff ELSE None],
                               out.status)
                   /\ client' = [client EXCEPT !.log = @ \o out.warnings]
    /\ UNCHANGED <<orgs, projects, repos, heap>>

NextAgent ==
    \/ Quiet /\ \E s \in Slots, b \in BranchNames, top \in 1..MaxTop :
          BeginSearch(1, s, b, "print_hello", top)
    \/ Quiet /\ \E s \in Slots, b \in BranchNames : BeginGenerate(1, s, b)
    \/ RespSearch(1)
    \/ RespGenerate(1)

SpecAgent == InitAgent /\ [][NextAgent]_vars

\* C16: a generate answer with a success status and partial = true does
\* not make generate fail: it returns the answer's diff unchanged, as it
\* does for partial = false, and logs one warning that carries the answer's
\* error description (none for partial = false).
C16_PartialGenerateReturnsDiffAndWarns ==
    \A c \in Coros :
        LET k == calls[c] IN
        (Done(c) /\ k.op = "generate" /\ k.response.status = 200)
        => /\ k.status = "ok"
           /\ k.diff = k.response.diff
           /\ client.log = k.log0 \o (IF k.response.partial
                                      THEN <<Warning(k.response.error)>> ELSE << >>)

\* a generate call has ended on a partial answer
C16_Witness ==
    /\ Done(1) /\ calls[1].op = "generate" /\ calls[1].response.status = 200
    /\ calls[1].response.partial /\ calls[1].response.error = "timeout"
    /\ calls[1].diff # ""

\* C19 as claimed: for every top = N >= 1 and every answer with a success
\* status, search returns at most N results.
C19_SearchAtMostTop ==
    \A c \in Coros :
        LET k == calls[c] IN
        (Done(c) /\ k.op = "search" /\ k.status = "ok")
        => Len(k.result) <= k.top

\* C19, amended: search passes top = N on to the service and returns one
\* result per entry of the answer, in the answer's order and with the
\* entry's fields; so it returns at most N results whenever the service
\* answered at most N entries.
C19_SearchReturnsTheAnswer ==
    \A c \in Coros :
        LET k == calls[c] IN
        (Done(c) /\ k.op = "search" /\ k.status = "ok")
        => /\ k.request.top = k.top
           /\ k.response.status = 200
           /\ Len(k.result) = Len(k.response.entries)
           /\ \A i \in 1..Len(k.result) :
                 /\ k.result[i].type = k.response.entries[i].type
                 /\ k.result[i].file = k.response.entries[i].file
                 /\ k.result[i].start_line = k.response.entries[i].start_line
                 /\ k.result[i].end_line = k.response.entries[i].end_line
           /\ Len(k.response.entries) <= k.top => Len(k.result) <= k.top

\* a search with top = 2 has returned the two entries the service answered
C19_Witness ==
    /\ Done(1) /\ calls[1].op = "search" /\ calls[1].status = "ok"
    /\ calls[1].top = 2 /\ Len(calls[1].result) = 2

\* ======================================================================
\* apply_diff(repo, diff): the diff is piped to "patch -p0" run in the
\* repository directory.  The working tree is one file, test.py, as the
\* sequence of its lines; a diff is empty, or text without any hunk, or one
\* hunk that replaces one line ("@@ -g,1 +g,1 @@ -old +new").
MaxLines == 2         \* lines of the file at most

Lines == {"x", "y"}
Trees == UNION {[1..n -> Lines] : n \in 0..MaxLines}
EmptyDiff == [kind |-> "empty", at |-> 0, old |-> None, new |-> None]
GarbageDiff == [kind |-> "garbage", at |-> 0, old |-> None, new |-> None]
Hunk(g, o, n) == [kind |-> "hunk", at |-> g, old |-> o, new |-> n]
Diffs == {EmptyDiff, GarbageDiff} \cup {Hunk(g, o, n) : g \in 1..MaxLines, o \in Lines, n \in Lines}

Dist(i, g) == IF i >= g THEN i - g ELSE g - i

\* GNU patch on one hunk without context: the line nearest to the stated
\* position that equals the removed line is replaced (the later one when
\* two are equally near) and patch exits 0; when no line equals it the hunk
\* fails, or is taken for already applied and skipped, and patch exits 1.
\* Empty input changes nothing and exits 0; input without a hunk exits 2.
PatchRun(tree, diff) ==
    LET hits == {i \in 1..Len(tree) : tree[i] = diff.old}
        at == CHOOSE i \in hits : \A j \in hits :
                 \/ Dist(i, diff.at) < Dist(j, diff.at)
                 \/ (Dist(i, diff.at) = Dist(j, diff.at) /\ i >= j)
    IN  IF diff.kind = "empty" THEN [returncode |-> 0, tree |-> tree]
        ELSE IF diff.kind = "garbage" THEN [returncode |-> 2, tree |-> tree]
        ELSE IF hits = {} THEN [returncode |-> 1, tree |-> tree]
        ELSE [returncode |-> 0, tree |-> [tree EXCEPT ![at] = diff.new]]

\* how Popen / communicate end: the process ran to its exit status, or a
\* subprocess.SubprocessError was raised, or an OSError (the directory is
\* missing)
Spawns == {"ran", "SubprocessError", "OSError"}

\* variant: any exit status but 2 counts as applied
ApplyDiffOutcomeNotTwo(spawn, returncode) ==
    IF spawn = "SubprocessError" THEN [status |-> "returned", result |-> FALSE]
    ELSE IF spawn = "OSError" THEN [status |-> "OSError", result |-> FALSE]
    ELSE [status |-> "returned", result |-> returncode # 2]

\* variant: without the except clause
ApplyDiffOutcomeNoExcept(spawn, returncode) ==
    IF spawn # "ran" THEN [status |-> spawn, result |-> FALSE]
    ELSE [status |-> "returned", result |-> returncode = 0]

\* apply_diff, lines 541-553: False for a non-zero returncode, True
\* otherwise; except subprocess.SubprocessError: False; any other
\* exception goes to the caller
ApplyDiffOutcome(spawn, returncode) ==
    IF spawn = "SubprocessError" THEN [status |-> "returned", result |-> FALSE]
    ELSE IF spawn = "OSError" THEN [status |-> "OSError", result |-> FALSE]
    ELSE [status |-> "returned", result |-> returncode = 0]

NoApply == [valid |-> FALSE, repo |-> None, diff |-> EmptyDiff, tree0 |-> << >>,
            status |-> "idle", result |-> FALSE]
PatchIdle ==
    [op |-> "idle", pc |-> "idle", repo |-> None, diff |-> EmptyDiff, tree0 |-> << >>,
     spawn |-> None, returncode |-> 0, status |-> "idle", result |-> FALSE,
     prev |-> NoApply]

InitPatch ==
    /\ orgs = << >> /\ projects = << >>
    /\ client = [organization |-> 0, organization_id |-> 0, memo_set |-> FALSE, memo |-> << >>]
    /\ heap = [s \in Slots |-> NoObj]
    /\ \E tree \in Trees :
          repos = [d \in {"r1", "gone"} |->
                     IF d = "r1" THEN [kind |-> "git", tree |-> tree]
                     ELSE [kind |-> "absent", tree |-> << >>]]
    /\ calls = [c \in Coros |-> PatchIdle]

\* apply_diff(repo, diff) from call to return: it blocks on the process, no
\* other code of the client runs in between
ApplyDiff(c, d, diff) ==
    LET k == calls[c]
        run == PatchRun(repos[d].tree, diff)
    IN  /\ MayBegin(c)
        /\ \E spawn \in {sp \in Spawns : repos[d].kind = "absent" <=> sp = "OSError"} :
              LET out == ApplyDiffOutcome(spawn, run.returncode) IN
              /\ repos' = IF spawn = "ran" THEN [repos EXCEPT ![d].tree = run.tree] ELSE repos
              /\ calls' = [calls EXCEPT ![c] =
                    [op |-> "apply_diff", pc |-> "done", repo |-> d, diff |-> diff,
                     tree0 |-> repos[d].tree, spawn |-> spawn,
                     returncode |-> IF spawn = "ran" THEN run.returncode ELSE 0,
                     status |-> out.status, result |-> out.result,
                     prev |-> IF k.op = "apply_diff"
                              THEN [valid |-> TRUE, repo |-> k.repo, diff |-> k.diff,
                                    tree0 |-> k.tree0, status |-> k.status,
                                    result |-> k.result]
                              ELSE NoApply]]
        /\ UNCHANGED <<orgs, projects, client, heap>>

NextPatch == \E d \in {"r1", "gone"}, diff \in Diffs : ApplyDiff(1, d, diff)

SpecPatch == InitPatch /\ [][NextPatch]_vars

\* the call of c is the second of two apply_diff calls in a row with the
\* same diff on the same repository, and the first returned True
AppliedTwice(c) ==
    LET k == calls[c] IN
    /\ Done(c) /\ k.op = "apply_diff"
    /\ k.prev.valid /\ k.prev.repo = k.repo /\ k.prev.diff = k.diff
    /\ k.prev.status = "returned" /\ k.prev.result

C18_ApplyDiffReturnsExitIsZero ==
    \A c \in Coros :
        LET k == calls[c] IN
        (Done(c) /\ k.op = "apply_diff")
        => /\ k.spawn = "ran" =>
                 /\ k.status = "returned"
                 /\ k.result <=> (k.returncode = 0)
                 /\ k.returncode = PatchRun(k.tree0, k.diff).returncode
           /\ k.spawn = "SubprocessError" => (k.status = "returned" /\ ~k.result)
           /\ (k.status = "returned" /\ k.result) => (k.spawn = "ran" /\ k.returncode = 0)

\* apply_diff has returned False for a hunk that did not apply
C18_Witness ==
    /\ Done(1) /\ calls[1].op = "apply_diff" /\ calls[1].spawn = "ran"
    /\ calls[1].diff.kind = "hunk" /\ calls[1].returncode = 1
    /\ calls[1].status = "returned" /\ ~calls[1].result
    /\ ~calls[1].prev.valid

\* C20: load_project(repo, create=False) on a git repository without a
\* 'bismuth' remote never returns: once the organization is resolved it
\* raises NotFound (a failed organization request or an ambiguous
\* organization raises first); it issues no create-project request and no
\* other project request, pushes nothing, and leaves the repository's
\* remotes and the service's project list as they were.
C20_LoadNoCreateNotFound ==
    \A c \in Coros :
        LET k == calls[c] IN
        (Done(c) /\ k.op = "load_project" /\ ~k.create
            /\ repos[k.repo].kind = "git" /\ BismuthCount(k.remotes0) = 0)
        => /\ k.status \in {"NotFound", "Transport", "Ambiguous"}
           /\ client.organization # 0 => k.status = "NotFound"
           /\ \A ev \in {"POST projects", "GET projects/list", "GET projects/id", "refresh",
                         "push", "create_remote", "set_url"} : Occurs(k.trace, ev) = 0
           /\ ~k.built
           /\ repos[k.repo].remotes = k.remotes0
           /\ Len(projects) = k.nprojects0

\* such a call has raised NotFound on a repository that has another remote
C20_Witness ==
    /\ Done(1) /\ calls[1].op = "load_project" /\ ~calls[1].create
    /\ calls[1].status = "NotFound"
    /\ calls[1].repo = "r2" /\ BismuthCount(calls[1].remotes0) = 0
    /\ Len(repos["r2"].remotes) = 1

\* C21: get_project with a name issues the project-list request, never the
\* request by id; when it returns, the Project is one the organization
\* lists under exactly that name; when the list answers and holds no
\* project of exactly that name it raises NotFound.  With an integer it
\* issues the request by id and never the list request, and the Project it
\* returns has that id.
C21_GetProjectByNameOrId ==
    \A c \in Coros :
        LET k == calls[c]
            t == k.trace
            Named == {i \in 1..Len(projects) : projects[i].name = k.key.name}
        IN
        (Done(c) /\ k.op = "get_project")
        => /\ k.status \in {"ok", "NotFound", "Transport", "Ambiguous"}
           /\ k.key.kind = "str" =>
                 /\ Occurs(t, "GET projects/id") = 0
                 /\ k.status = "ok" =>
                       /\ Occurs(t, "GET projects/list") = 1
                       /\ heap[k.p].live
                       /\ heap[k.p].name = k.key.name
                       /\ \E i \in Named :
                             /\ projects[i].id = heap[k.p].id
                             /\ projects[i].hash = heap[k.p].hash
                             /\ projects[i].clone_token = heap[k.p].clone_token
                 /\ k.status = "NotFound" =>
                       (Occurs(t, "GET projects/list") = 1 /\ Named = {})
                 /\ (Named = {} /\ k.status \notin {"Transport", "Ambiguous"}) =>
                       k.status = "NotFound"
                 /\ (Named # {} /\ k.status \notin {"Transport", "Ambiguous"}) =>
                       k.status = "ok"
           /\ k.key.kind = "int" =>
                 /\ Occurs(t, "GET projects/list") = 0
                 /\ k.status # "NotFound"
                 /\ k.status = "ok" =>
                       /\ t[Len(t)] = "GET projects/id"
                       /\ Occurs(t, "GET projects/id") = 1
                       /\ heap[k.p].live
                       /\ heap[k.p].id = k.key.id

\* get_project by a name no listed project has, on a service that lists
\* two projects under other names
C21_Witness ==
    /\ Done(1) /\ calls[1].op = "get_project" /\ calls[1].key.kind = "str"
    /\ calls[1].status = "NotFound"
    /\ Len(projects) = 2
    /\ \A i \in 1..Len(projects) : projects[i].name # calls[1].key.name

ProjectRequests == {"GET projects/list", "GET projects/id", "POST projects", "refresh"}

\* C22: on a client built without an organization id (its calls request
\* the organization listing or take it from the memo) whose organization
\* listing holds more than one organization, get_project and load_project
\* (on a git repository) raise Ambiguous, or the failure of the listing
\* request, and issue no project request and create no Project; the
\* listing is requested once and answered from the memo afterwards.  When
\* the listing holds exactly one organization, its id becomes the client's
\* organization id, the organization with that id is fetched and used, and
\* no call raises Ambiguous.
C22_AmbiguousWithoutProjectRequest ==
    \A c \in Coros :
        LET k == calls[c]
            t == k.trace
        IN
        (k.op \in {"get_project", "load_project"} /\ k.status # "InvalidRepository")
        => /\ (Len(orgs) > 1 /\ (client.memo_set \/ Occurs(t, "GET organizations") > 0)) =>
                 /\ client.organization_id = 0
                 /\ \A i \in 1..Len(t) : t[i] = "GET organizations"
                 /\ Len(t) <= 1
                 /\ Done(c) => k.status \in {"Ambiguous", "Transport"}
                 /\ (Done(c) /\ k.status = "Transport") => t = <<"GET organizations">>
                 /\ (Done(c) /\ client.memo_set) => k.status = "Ambiguous"
                 /\ client.organization = 0
                 /\ ~k.built
                 /\ Len(projects) = k.nprojects0
           /\ Len(orgs) = 1 =>
                 /\ k.status # "Ambiguous"
                 /\ client.organization \in {0, orgs[1]}
                 /\ (Len(t) >= 2 /\ t[1] = "GET organizations") =>
                       /\ t[2] = "GET organizations/id"
                       /\ client.organization_id = orgs[1]
                 /\ (\E i \in 1..Len(t) : t[i] \in ProjectRequests) =>
                       client.organization = orgs[1]
                 /\ (Done(c) /\ k.status = "ok") => client.organization = orgs[1]

\* a load_project that raised Ambiguous from the memoized listing, without
\* any request of its own
C22_Witness ==
    /\ Done(1) /\ calls[1].op = "load_project" /\ calls[1].status = "Ambiguous"
    /\ calls[1].trace = << >>
    /\ Len(orgs) = 2 /\ client.memo_set
    /\ repos[calls[1].repo].kind = "git"

\* the organization was inferred from a listing of one
C22_WitnessOne ==
    /\ Done(1) /\ calls[1].op = "get_project" /\ calls[1].status = "ok"
    /\ calls[1].trace[1] = "GET organizations"
    /\ client.organization = 2

\* C23 as claimed: load_project and synchronize_local on a directory that
\* is no git working directory raise InvalidRepository, with no request
\* issued, no Project created and no remote created or changed.
C23_NoGitInvalidRepository ==
    \A c \in Coros :
        LET k == calls[c] IN
        (k.op \in {"load_project", "synchronize_git_local"} /\ repos[k.repo].kind # "git")
        => /\ Done(c)
           /\ k.status = "InvalidRepository"
           /\ k.trace = << >>
           /\ ~k.built
           /\ Len(projects) = k.nprojects0
           /\ repos[k.repo].remotes = k.remotes0

\* C23, amended: load_project on a directory that is no git working
\* directory, and synchronize_local on such a directory with a Project that
\* is not linked to GitHub, raise InvalidRepository, with no request issued,
\* no Project created, no remote created or changed and the Project's
\* branches as they were; with a linked Project synchronize_local raises
\* Unsupported instead, with the same absence of effects.
C23_NoGitInvalidRepositoryUnlessLinked ==
    \A c \in Coros :
        LET k == calls[c] IN
        (k.op \in {"load_project", "synchronize_git_local"} /\ repos[k.repo].kind # "git")
        => /\ Done(c)
           /\ k.status = IF k.op = "synchronize_git_local" /\ heap[k.p].github_app_install
                         THEN "Unsupported" ELSE "InvalidRepository"
           /\ k.trace = << >>
           /\ ~k.built
           /\ Len(projects) = k.nprojects0
           /\ repos[k.repo].remotes = k.remotes0
           /\ \A d \in Paths : BismuthCount(repos[d].remotes) = 0 \/ d \in GitRepos
           /\ k.op = "synchronize_git_local" => heap[k.p].branches = k.snap

\* synchronize_local of a Project that is not linked, on a directory
\* without .git, while the service lists the project
C23_Witness ==
    /\ Done(1) /\ calls[1].op = "synchronize_git_local"
    /\ calls[1].repo = PlainDir
    /\ ~heap[calls[1].p].github_app_install
    /\ calls[1].status = "InvalidRepository"
    /\ Len(projects) > 0

Attempts == HttpEvents \cup {"push", "clone"}
Failures == {"Transport", "GitCommandError"}

\* C24: within one call every HTTP request, the push and the clone are
\* attempted at most once; a step that fails (a request answered with an
\* error status or not at all, a clone or a push that failed) is the last
\* step of the call: no request follows it and the call raises the failure
\* to its caller.
C24_NoRetryFailureIsLast ==
    \A c \in Coros :
        LET k == calls[c]
            t == k.trace
        IN
        k.op # "idle"
        => /\ \A ev \in Attempts : Occurs(t, ev) <= 1
           /\ k.push \in {"raised", "rejected"} =>
                 /\ Done(c)
                 /\ k.status = "GitCommandError"
                 /\ t[Len(t)] = "push_end"
           /\ k.status \in Failures =>
                 /\ Done(c)
                 /\ k.status = "GitCommandError" =>
                       t[Len(t)] \in {"push_end", "clone_end"}
                 /\ k.status = "Transport" =>
                       t[Len(t)] \in HttpEvents \cup {"refresh_end"}

\* C25: get_branch(name) issues no request and leaves the Project's branch
\* list as it was; it returns the first Branch of that list whose name is
\* the argument and raises NotFound exactly when the list has none, also
\* when the service has a branch of that name that was pushed after the
\* last refresh.
C25_GetBranchScansCachedList ==
    \A c \in Coros :
        LET k == calls[c]
            Named == {i \in 1..Len(k.snap) : k.snap[i].name = k.key.name}
        IN
        (Done(c) /\ k.op = "get_branch")
        => /\ k.trace = << >>
           /\ heap[k.p].branches = k.snap
           /\ k.status \in {"ok", "NotFound"}
           /\ k.status = "NotFound" <=> Named = {}
           /\ k.status = "ok" =>
                 \E i \in Named : /\ \A j \in Named : i <= j
                                  /\ k.branch = k.snap[i]

\* get_branch did not find a branch the service holds: it was pushed by a
\* synchronize_local whose refresh failed
C25_Witness ==
    /\ Done(1) /\ calls[1].op = "get_branch" /\ calls[1].status = "NotFound"
    /\ ServerHead(heap[calls[1].p].id, calls[1].key.name) # None
    /\ Len(heap[calls[1].p].branches) > 0

\* requests of one kind issued by the calls of the two coroutines together
Issued(ev) == Occurs(calls[1].trace, ev) + Occurs(calls[2].trace, ev)

\* C26: over the calls made on one client, one after the other or
\* overlapping, the organization listing is requested at most once and the
\* organization itself is requested at most once; a call that begins after
\* the organization was resolved issues neither request and works with the
\* Organization the client holds.
C26_OrganizationResolvedOnce ==
    /\ Issued("GET organizations") <= 1
    /\ Issued("GET organizations/id") <= 1
    /\ \A c \in Coros :
          calls[c].org0 # 0 =>
             /\ Occurs(calls[c].trace, "GET organizations") = 0
             /\ Occurs(calls[c].trace, "GET organizations/id") = 0
             /\ client.organization = calls[c].org0

\* ======================================================================
\* The key-value blob store (bismuth/codeblocks): the service as the test
\* suite's requests double implements it (mock_get, mock_post, mock_put,
\* mock_delete over one storage dict), driven by the storage code block's
\* create, retrieve, update, delete and list_all.  Keys are names without
\* URL delimiters, as in the tests; values are strings.
TEST_AUTH == "testauth123"
BlobKeys == {"key1", "key2"}
BlobValues == {"value1", "value2"}
BlobPrefix == <<"/", "blob", "/", "v1", "/">>
BlobApi == <<"http", ":", "/", "/", "svcprovider">> \o BlobPrefix

NoData == [type |-> "None", chars |-> << >>]
Str(chars) == [type |-> "str", chars |-> chars]
\* bytes(data, 'utf-8')
Bytes(s) == [type |-> "bytes", chars |-> s.chars]
\* list(v) of a bytes value, as the listing serialises it
IntList(b) == [type |-> "list", chars |-> b.chars]
\* json.dumps of a string value
JsonDumps(v) == Str(<<"\"", v, "\"">>)
\* json.loads of a str or bytes holding one JSON string
JsonLoads(d) ==
    IF d.type \in {"str", "bytes"} /\ Len(d.chars) = 3
          /\ d.chars[1] = "\"" /\ d.chars[3] = "\""
    THEN d.chars[2] ELSE "JSONDecodeError"

\* class MockResponse
MockResponse(data, status_code) == [data |-> data, items |-> << >>, status_code |-> status_code]
ResponseOk(r) == 200 <= r.status_code /\ r.status_code < 300

HasAuthorization(headers) == "Authorization" \in DOMAIN headers

\* mock_get: the whole store as {key: list(value)} for the prefix itself,
\* the stored bytes for a key, 404 for a key that is not stored
StoredKey(path) == Tail2(path, Len(BlobPrefix) + 1)

MockGetPath(storage, path, headers) ==
    IF ~HasAuthorization(headers) \/ headers["Authorization"] # <<"Bearer ", TEST_AUTH>>
    THEN MockResponse(NoData, 401)
    ELSE IF path = BlobPrefix
    THEN [data |-> Str(<<"{...}">>),
          items |-> [k \in DOMAIN storage |-> IntList(storage[k])],
          status_code |-> 200]
    ELSE IF StoredKey(path) \in DOMAIN storage
    THEN MockResponse(storage[StoredKey(path)], 200)
    ELSE MockResponse(NoData, 404)

MockGet(storage, url, headers) == MockGetPath(storage, UrlParse(url).path, headers)

\* storage[key] = bytes(data, 'utf-8')
MockStore(storage, key, data) ==
    [k \in DOMAIN storage \cup {key} |-> IF k = key THEN Bytes(data) ELSE storage[k]]

\* variant: storing over an existing key instead of answering 409
MockPostOverwrites(storage, url, headers, data) ==
    IF ~HasAuthorization(headers)
    THEN [response |-> MockResponse(NoData, 401), storage |-> storage]
    ELSE [response |-> MockResponse(NoData, 200),
          storage |-> MockStore(storage, StoredKey(UrlParse(url).path), data)]

\* mock_post: 409 for a stored key, otherwise the value is stored
MockPostKey(storage, key, headers, data) ==
    IF ~HasAuthorization(headers)
    THEN [response |-> MockResponse(NoData, 401), storage |-> storage]
    ELSE IF key \in DOMAIN storage
    THEN [response |-> MockResponse(NoData, 409), storage |-> storage]
    ELSE [response |-> MockResponse(NoData, 200), storage |-> MockStore(storage, key, data)]

MockPost(storage, url, headers, data) ==
    MockPostKey(storage, StoredKey(UrlParse(url).path), headers, data)

\* mock_put: the value of a stored key is replaced, 404 otherwise
MockPutKey(storage, key, headers, data) ==
    IF ~HasAuthorization(headers)
    THEN [response |-> MockResponse(NoData, 401), storage |-> storage]
    ELSE IF key \in DOMAIN storage
    THEN [response |-> MockResponse(NoData, 200), storage |-> MockStore(storage, key, data)]
    ELSE [response |-> MockResponse(NoData, 404), storage |-> storage]

MockPut(storage, url, headers, data) ==
    MockPutKey(storage, StoredKey(UrlParse(url).path), headers, data)

\* variant: 200 is answered but the key stays
MockDeleteKeeps(storage, url, headers) ==
    IF ~HasAuthorization(headers)
    THEN [response |-> MockResponse(NoData, 401), storage |-> storage]
    ELSE IF StoredKey(UrlParse(url).path) \in DOMAIN storage
    THEN [response |-> MockResponse(NoData, 200), storage |-> storage]
    ELSE [response |-> MockResponse(NoData, 404), storage |-> storage]

\* mock_delete: a stored key is removed, 404 otherwise
MockDeleteKey(storage, key, headers) ==
    IF ~HasAuthorization(headers)
    THEN [response |-> MockResponse(NoData, 401), storage |-> storage]
    ELSE IF key \in DOMAIN storage
    THEN [response |-> MockResponse(NoData, 200),
          storage |-> [k \in DOMAIN storage \ {key} |-> storage[k]]]
    ELSE [response |-> MockResponse(NoData, 404), storage |-> storage]

MockDelete(storage, url, headers) ==
    MockDeleteKey(storage, StoredKey(UrlParse(url).path), headers)

\* ---- the storage code block (its calls block until the answer is there)
BlobHeaders == [h \in {"Authorization"} |-> <<"Bearer ", TEST_AUTH>>]
BlobUrl(key) == client.api_url \o <<key>>
NoListing == [k \in {} |-> None]
NeverWritten == [k \in BlobKeys |-> None]

BlobIdle ==
    [op |-> "idle", pc |-> "idle", key |-> None, val |-> None, code |-> 0,
     status |-> "idle", result |-> None, listing |-> NoListing,
     storage0 |-> NoListing, written |-> NeverWritten]

\* The fixture of the test suite: BISMUTH_AUTH is set and the store is
\* empty.
InitBlob ==
    /\ orgs = << >>
    /\ projects = NoListing                  \* storage: Dict[str, bytes] = {}
    /\ client = [api_url |-> BlobApi, auth |-> BlobHeaders]
    /\ heap = [s \in Slots |-> NoObj]
    /\ repos = [d \in {"r1"} |-> AbsentDir]
    /\ calls = [c \in Coros |-> BlobIdle]

\* how a write call ends on the answer's status: 409 and 404 are raised as
\* ValueError, any other error status as an HTTP error
WriteOutcome(r) ==
    IF r.status_code \in {404, 409} THEN "ValueError"
    ELSE IF ~ResponseOk(r) THEN "HTTPError"
    ELSE "returned"

BlobEnd(c, k, op, key, val, r, status, result, listing, written) ==
    calls' = [calls EXCEPT ![c] =
        [op |-> op, pc |-> "done", key |-> key, val |-> val, code |-> r.status_code,
         status |-> status, result |-> result, listing |-> listing,
         storage0 |-> projects, written |-> written]]

\* the end of a write call: the store is what the service made of it, and
\* the value last written under the key changes when the call returned
BlobWritten(c, op, key, val, after, m) ==
    /\ MayBegin(c)
    /\ projects' = m.storage
    /\ BlobEnd(c, calls[c], op, key, val, m.response, WriteOutcome(m.response), None, NoListing,
               IF WriteOutcome(m.response) = "returned"
               THEN [calls[c].written EXCEPT ![key] = after] ELSE calls[c].written)
    /\ UNCHANGED <<orgs, repos, client, heap>>

\* create(key, value): POST {api}{key} with the value as JSON
BlobCreate(c, key, val) ==
    BlobWritten(c, "create", key, val, val,
                MockPost(projects, BlobUrl(key), client.auth, JsonDumps(val)))

\* update(key, value): PUT {api}{key} with the value as JSON
BlobUpdate(c, key, val) ==
    BlobWritten(c, "update", key, val, val,
                MockPut(projects, BlobUrl(key), client.auth, JsonDumps(val)))

\* delete(key): DELETE {api}{key}
BlobDelete(c, key) ==
    BlobWritten(c, "delete", key, None, None,
                MockDelete(projects, BlobUrl(key), client.auth))

\* the end of retrieve on the answer r: None for 404, the decoded value
\* otherwise
BlobRetrieved(c, key, r) ==
    /\ MayBegin(c)
    /\ IF r.status_code = 404
       THEN BlobEnd(c, calls[c], "retrieve", key, None, r, "returned", None, NoListing,
                    calls[c].written)
       ELSE IF ~ResponseOk(r)
       THEN BlobEnd(c, calls[c], "retrieve", key, None, r, "HTTPError", None, NoListing,
                    calls[c].written)
       ELSE BlobEnd(c, calls[c], "retrieve", key, None, r, "returned", JsonLoads(r.data),
                    NoListing, calls[c].written)
    /\ UNCHANGED <<orgs, projects, repos, client, heap>>

\* retrieve(key): GET {api}{key}
BlobRetrieve(c, key) == BlobRetrieved(c, key, MockGet(projects, BlobUrl(key), client.auth))

\* the end of list_all on the answer r: every value comes as a list of byte
\* values and is decoded as retrieve decodes it
BlobListed(c, r) ==
    /\ MayBegin(c)
    /\ IF ~ResponseOk(r)
       THEN BlobEnd(c, calls[c], "list_all", None, None, r, "HTTPError", None, NoListing,
                    calls[c].written)
       ELSE BlobEnd(c, calls[c], "list_all", None, None, r, "returned", None,
                    [x \in DOMAIN r.items |-> JsonLoads(Bytes(r.items[x]))], calls[c].written)
    /\ UNCHANGED <<orgs, projects, repos, client, heap>>

\* list_all(): GET {api}
BlobListAll(c) == BlobListed(c, MockGet(projects, client.api_url, client.auth))

NextBlob ==
    \/ \E key \in BlobKeys, val \in BlobValues : BlobCreate(1, key, val)
    \/ \E key \in BlobKeys, val \in BlobValues : BlobUpdate(1, key, val)
    \/ \E key \in BlobKeys : BlobDelete(1, key)
    \/ \E key \in BlobKeys : BlobRetrieve(1, key)
    \/ BlobListAll(1)

SpecBlob == InitBlob /\ [][NextBlob]_vars

Identity(obj) ==
    [id |-> obj.id, name |-> obj.name, hash |-> obj.hash,
     clone_token |-> obj.clone_token, github_app_install |-> obj.github_app_install]

\* C29: a refresh, also the one at the end of synchronize_local and
\* synchronize_remote, assigns nothing but the branch list: id, name, hash,
\* clone_token and GitHub link of the Project object stay what load_project
\* returned them as, also when the service answers the refresh with another
\* name, another clone token or a GitHub link.
C29_RefreshKeepsIdentity ==
    \A c \in Coros :
        LET k == calls[c] IN
        k.op \in RefreshingOps
        => /\ Identity(heap[k.p]) = Identity(NewProject(ServerProject(1, "app", FALSE)))
           /\ heap[k.p].live /\ heap[k.p].api

\* a refresh has replaced the branch list from an answer that carried
\* another name, another clone token and a GitHub link
C29_Witness ==
    /\ Done(1) /\ calls[1].op = "_refresh" /\ calls[1].status = "ok"
    /\ heap[calls[1].p].branches # calls[1].snap
    /\ projects[1].name # heap[calls[1].p].name
    /\ projects[1].clone_token # heap[calls[1].p].clone_token
    /\ projects[1].github_app_install

\* C30: when load_project's creation path has attached the 'bismuth' remote
\* of the Project it created and the push then failed, a later load_project
\* on that repository issues no create request, finds the created Project
\* by the token of the remote and returns it.
C30_LoadAfterFailedPushReturnsCreated ==
    \A c \in Coros :
        LET k == calls[c] IN
        (k.op = "load_project" /\ k.pc = "loaded" /\ k.fresh /\ k.push = "raised")
        => /\ k.status = "ok"
           /\ k.p = projects[2].id
           /\ k.token = projects[2].clone_token

\* the two coroutines each run load_project(repo, create=true) on one
\* repository that had no 'bismuth' remote when either began
BothLoadCreating ==
    /\ \A c \in Coros : /\ calls[c].op = "load_project" /\ calls[c].create
                        /\ BismuthCount(calls[c].remotes0) = 0
    /\ calls[1].repo = calls[2].repo

\* C31: two overlapping load_project(repo, create=true) calls on one
\* repository without a 'bismuth' remote issue at most one create-project
\* request between them, and when both have returned the repository has one
\* 'bismuth' remote, which carries the clone token of the Project that both
\* calls returned.
C31_OverlappingLoadsCreateOnce ==
    BothLoadCreating =>
        /\ Issued("POST projects") <= 1
        /\ (\A c \in Coros : Done(c) /\ calls[c].status = "ok") =>
              /\ BismuthCount(repos[calls[1].repo].remotes) = 1
              /\ heap[calls[1].p].id = heap[calls[2].p].id
              /\ TokenIn(repos[calls[1].repo].remotes) = heap[calls[1].p].clone_token

\* every branch of a list carries the back-references of the Project in slot s
BackReferenced(branches, s) ==
    \A i \in 1..Len(branches) : branches[i].api /\ branches[i].project = s

\* C32: in one event loop, when one coroutine refreshes a Project and the
\* other calls get_branch on it, get_branch has scanned either the whole
\* list the Project held when the refresh began or the whole list the
\* refresh installed, with every branch of it back-referenced; the Branch it
\* returns is one of the old list or carries its back-references.
C32_GetBranchSeesOldOrNewList ==
    \A r \in Coros, g \in Coros :
        LET kr == calls[r]
            kg == calls[g]
        IN  (kr.op = "_refresh" /\ kg.op = "get_branch" /\ Done(g) /\ kg.p = kr.p)
            => /\ \/ kg.snap = kr.snap
                  \/ /\ Done(r) /\ kr.status = "ok"
                     /\ kg.snap = heap[kr.p].branches
                     /\ Len(kg.snap) = Len(projects[1].features)
                     /\ \A i \in 1..Len(kg.snap) : kg.snap[i].name = projects[1].features[i]
                     /\ BackReferenced(kg.snap, kr.p)
               /\ kg.status = "ok" =>
                     \/ \E i \in 1..Len(kr.snap) : kr.snap[i] = kg.branch
                     \/ kg.branch.api /\ kg.branch.project = kr.p

\* get_branch ran after the answer of the refresh and returned a Branch of
\* the new list where the old list had that name without back-references
C32_Witness ==
    \E r \in Coros, g \in Coros :
        /\ calls[r].op = "_refresh" /\ Done(r) /\ calls[r].status = "ok"
        /\ calls[g].op = "get_branch" /\ Done(g) /\ calls[g].status = "ok"
        /\ calls[g].p = calls[r].p
        /\ calls[g].snap # calls[r].snap
        /\ calls[g].branch.api
        /\ \E i \in 1..Len(calls[r].snap) :
              calls[r].snap[i].name = calls[g].branch.name /\ ~calls[r].snap[i].api

\* get_branch ran while the request of the refresh was in flight and
\* scanned the list the service no longer has
C32_WitnessInFlight ==
    \E r \in Coros, g \in Coros :
        /\ calls[r].op = "_refresh" /\ calls[r].pc = "await_refresh"
        /\ calls[g].op = "get_branch" /\ Done(g) /\ calls[g].p = calls[r].p
        /\ Len(calls[g].snap) # Len(projects[1].features)

====
